---- MODULE Spec2Model ----
(***************************************************************************)
(* Model of the playback core of gpui-video-player (src/src/video.rs):     *)
(* the shared Internal state, the Sampling Worker thread spawned by        *)
(* Video::from_gst_pipeline_with_options, the operations of the Video      *)
(* handle (an Arc<RwLock<Internal>>), and the GStreamer pipeline as a      *)
(* nondeterministic environment.                                           *)
(*                                                                         *)
(* Granularity: one step per access to a lock, an atomic or the pipeline.  *)
(* Acquiring the RwLock is merged with the first access made under it and  *)
(* releasing it with the last one.                                         *)
(***************************************************************************)
EXTENDS Integers, Sequences, FiniteSets, TLC

\* ---------------------------------------------------------------- bounds
MaxHandles == 2      \* Video clones that may exist over a run
MaxFrames  == 3      \* samples the video appsink delivers over a run
MaxCap     == 2      \* largest frame_buffer_capacity a caller sets
MaxCalls   == 2      \* Handle operations (other than clone and drop) over a run
MaxEvents  == 1      \* other things the pipeline does over a run: a message posted
                     \* on its bus, a text sample delivered, a video sample
                     \* delivered without segment, timestamp or duration

Handles == 1..MaxHandles

\* The threads that take the inner mutexes: the worker (0) and the handles' holders.
Threads == {0} \cup Handles

\* ------------------------------------------------------------ value sets
\* arg[h]: the call a handle is in, and its argument (an idle handle's is None)
None == [op |-> "None", paused |-> FALSE, capacity |-> 0]
Arg(op, paused, capacity) == [op |-> op, paused |-> paused, capacity |-> capacity]

\* Option::None of the cue slots and of clear_subtitles_at
NoCue  == [pts |-> 0, dur |-> 0]
NoTime == -1

\* No call returned in the last step; no seek was asked of the pipeline in it.
NoRet  == [op |-> "none", res |-> "none", data |-> <<>>]
NoSeek == [rate |-> 0, start |-> [type |-> "None", at |-> NoTime],
           stop |-> [type |-> "None", at |-> NoTime], ok |-> FALSE]

\* A seek asked of the pipeline: source.seek(rate, flags, start_type, start,
\* stop_type, stop), and whether the pipeline accepts it. Every seek of
\* video.rs carries SeekFlags::FLUSH.
SeekSet(t) == [type |-> "Set", at |-> t]
SeekEnd(t) == [type |-> "End", at |-> t]
SeekReq(rate, start, stop, ok) ==
    [rate |-> rate, start |-> start, stop |-> stop, ok |-> ok]

\* A rate-change seek that always takes the forward segment.
RateSeek_Forward(rate, position, ok) ==
    SeekReq(rate, SeekSet(position), SeekEnd(0), ok)

\* The rate-change seek of set_speed and of the initial-speed step:
\* if speed > 0.0 { seek(speed, .., Set, position, End, 0) }
\* else { seek(speed, .., Set, 0, Set, position) }
RateSeek(rate, position, ok) ==
    IF rate > 0
    THEN SeekReq(rate, SeekSet(position), SeekEnd(0), ok)
    ELSE SeekReq(rate, SeekSet(0), SeekSet(position), ok)

\* Positions a caller seeks to.
Positions == {1}

\* Frame(gst::Sample): id numbers the samples in the order the appsink
\* delivered them (its timestamp, too: the stream is played forward), gen is the
\* number of flush seeks the pipeline had accepted when it was delivered.
\* Frame::empty() is a sample without a buffer.
EmptyFrame == [id |-> 0, gen |-> 0]

\* The negotiated caps (width, height) are read once in the constructor. Caps
\* carry positive sizes, which `as u32` leaves as they are.
Widths  == {4}
Heights == {2}

\* Rates a caller passes to set_speed / VideoOptions::speed.
Rates == {2, -1, 0}

\* The capacity of VideoOptions::default(), which VideoOptions documents as its
\* default: frame_buffer_capacity: Some(3)
DefaultCapacity == 3

\* Frame::readable(): the bytes of the frame's buffer; Frame::empty() has no buffer
\* to map (<<>> stands for that None: its callers treat an empty slice alike).
Readable(f) == IF f.id = 0 THEN <<>> ELSE <<f.id>>

\* ------------------------------------------------------------- variables
VARIABLES
    \* Internal (shared through Arc<RwLock<Internal>>)
    source,                 \* pipeline state: "Playing" | "Paused" | "Null"
    alive,                  \* Arc<AtomicBool>
    worker,                 \* Option<JoinHandle>: "Some" | "None"
    width, height,
    speed,
    frame,                  \* Arc<Mutex<Frame>>: the Frame Slot
    upload_frame,           \* Arc<AtomicBool>: frame_ready
    frame_buffer,           \* Arc<Mutex<VecDeque<Frame>>>
    frame_buffer_capacity,  \* Arc<AtomicUsize>
    is_eos,                 \* Arc<AtomicBool>
    restart_stream,         \* bool: restart_requested
    subtitle_text,          \* Arc<Mutex<Option<String>>>
    upload_text,            \* Arc<AtomicBool>
    \* Handle threads
    pc,                     \* pc[h]: where handle h's holder is
    arg,                    \* arg[h]: the argument of the call in progress
    pre,                    \* pre[h]: the seek in progress began with a non-empty
                            \* buffer and upload_frame = true
    calls,                  \* Handle operations started so far
    \* what the last step handed out (NoRet / NoSeek after any other step)
    ret,                    \* the call that returned: [op, res, data]
    seekReq,                \* the seek asked of the pipeline: [rate, ok]
    \* Sampling Worker thread
    wpc,                    \* position in the loop body
    wSample,                \* `sample`, the frame pulled in this iteration
    wCap,                   \* `capacity`, as loaded at line 432
    wPlaying,               \* pipeline state observed at line 407
    wText,                  \* the cue pulled in this iteration
    clear_subtitles_at,     \* Option<ClockTime>
    \* pipeline (environment)
    bus,                    \* messages posted and not yet popped
    events,                 \* bus messages, text samples and unusable video samples so far
    delivered,              \* video samples delivered so far
    gen,                    \* flush seeks of Internal::seek accepted so far
    \* history
    teardowns,              \* times the teardown branch of drop was entered
    joined,                 \* worker.join() returned
    unconsumed,             \* publishes (stores of upload_frame = true) minus the
                            \* take_frame_ready() calls that returned true
    pubSinceTrue,           \* a publish happened since the last such call
    lastWritten,            \* the frame the worker last wrote to the slot
    staleReady,             \* upload_frame was last set for a frame pulled before a
                            \* seek that has since cleared the flag
    pushedInSeek,           \* the worker pushed a frame after the seek in progress
                            \* cleared the buffer
    eosDrained,             \* the worker stored is_eos = true since the seek or
                            \* restart in progress began
    lastPop,                \* id of the frame the last pop_buffered_frame() that
                            \* found one took from the buffer (0: none yet)
    \* construction (from_gst_pipeline_with_options)
    npc,                    \* where the constructor is; "done" once it returned Ok
    options,                \* the VideoOptions it was given
    looping,                \* Internal.looping
    \* display size (set_display_size / display_size)
    display_width_override, \* Option<u32>: <<>> or <<w>>
    display_height_override, \* Option<u32>: <<>> or <<h>>
    \* VideoElement::paint (element.rs)
    buffered,               \* `buffered`: pops the drain loop has still to make
    frame_to_render,        \* Option<(Vec<u8>, u32, u32)>: <<>> or the frame tuple
    painted,                \* history: id of the frame the last paint that had one
                            \* chose (0: none yet)
    \* the inner mutexes (parking_lot::Mutex)
    held                    \* held[t]: the inner mutexes whose guard thread t holds
                            \* (t = 0: the worker; t in Handles: a handle's holder)

internalVars == <<source, alive, worker, width, height, speed, frame, upload_frame,
                  frame_buffer, frame_buffer_capacity, is_eos, restart_stream,
                  subtitle_text, upload_text>>
handleVars   == <<pc, arg, pre, calls>>
outVars      == <<ret, seekReq>>
workerVars   == <<wpc, wSample, wCap, wPlaying, wText, clear_subtitles_at>>
pipeVars     == <<bus, events, delivered, gen>>
histVars     == <<teardowns, joined, unconsumed, pubSinceTrue, lastWritten,
                  staleReady, pushedInSeek, eosDrained, lastPop>>
newVars      == <<npc, options, looping>>
sizeVars     == <<display_width_override, display_height_override>>
paintVars    == <<buffered, frame_to_render, painted>>
lockVars     == <<held>>
vars == <<internalVars, handleVars, outVars, workerVars, pipeVars, histVars, newVars,
          sizeVars, paintVars, lockVars>>

\* source.query_position::<ClockTime>(), when it answers: the pipeline's position,
\* counted in frame durations as the samples it has delivered.
Position == delivered

\* ------------------------------------------------------------------ Init
\* The state in which from_gst_pipeline_with_options returns Ok(Video(..)):
\* the pipeline is Playing, the worker has been spawned, one handle exists.
\* options.speed is Some(1.0), as in VideoOptions::default(), so no initial
\* rate seek is made; options.frame_buffer_capacity is None or Some(0) (0, by
\* unwrap_or_default) or a positive capacity.
Init ==
    /\ source = "Playing"
    /\ alive = TRUE
    /\ worker = "Some"
    /\ width \in Widths
    /\ height \in Heights
    /\ speed = 1
    /\ frame = EmptyFrame
    /\ upload_frame = FALSE
    /\ frame_buffer = <<>>
    /\ frame_buffer_capacity \in {0, MaxCap}
    /\ is_eos = FALSE
    /\ restart_stream = FALSE
    /\ subtitle_text = NoCue
    /\ upload_text = FALSE
    /\ pc = [h \in Handles |-> IF h = 1 THEN "idle" ELSE "unborn"]
    /\ arg = [h \in Handles |-> None]
    /\ pre = [h \in Handles |-> FALSE]
    /\ ret = [op |-> "new", res |-> "Ok", data |-> <<>>]
    /\ seekReq = NoSeek
    /\ calls = 0
    /\ wpc = "loop"
    /\ wSample = EmptyFrame
    /\ wCap = 0
    /\ wPlaying = FALSE
    /\ wText = NoCue
    /\ clear_subtitles_at = NoTime
    /\ bus = <<>>
    /\ events = 0
    /\ delivered = 0
    /\ gen = 0
    /\ teardowns = 0
    /\ joined = FALSE
    /\ unconsumed = 0
    /\ pubSinceTrue = FALSE
    /\ lastWritten = EmptyFrame
    /\ staleReady = FALSE
    /\ pushedInSeek = FALSE
    /\ eosDrained = FALSE
    /\ lastPop = 0
    /\ display_width_override = <<>>
    /\ display_height_override = <<>>
    /\ buffered = 0
    /\ frame_to_render = <<>>
    /\ painted = 0
    /\ held = [t \in Threads |-> {}]
    /\ npc = "done"
    /\ options = [frame_buffer_capacity |-> <<frame_buffer_capacity>>,
                  looping |-> <<FALSE>>, speed |-> <<1>>]
    /\ looping = FALSE

\* --------------------------------------------------------------- helpers
\* while buf.len() > capacity { buf.pop_front(); }
RECURSIVE TrimFront(_, _)
TrimFront(buf, capacity) ==
    IF Len(buf) > capacity THEN TrimFront(Tail(buf), capacity) ELSE buf

\* Arc::strong_count(&self.0): the clones alive (a clone is counted until the
\* Arc field itself is dropped, after Drop::drop has returned).
StrongCount == Cardinality({h \in Handles : pc[h] \notin {"unborn", "dropped"}})

\* Positions at which a handle's holder holds the RwLock's write guard / read guard.
WritePcs == {"seek_sub", "seek_subflag", "seek_buf", "seek_flag",
             "restart_play", "restart_flag", "restart_seek", "pause_flag",
             "drop_null", "drop_alive", "drop_take", "drop_join"}
ReadPcs  == {"cap_trim", "size_height", "cap_locked", "current_lock",
             "current_locked"}

\* Handle h is inside Internal::seek or Internal::restart_stream.
InSeekOrRestart(h) ==
    pc[h] \in {"seek_sub", "seek_subflag", "seek_buf", "seek_flag",
               "restart_play", "restart_flag", "restart_seek"}

\* self.0.write() / try_write() can be granted to h; self.0.read() can be granted to h.
CanWrite(h) == \A g \in Handles \ {h} : pc[g] \notin (WritePcs \cup ReadPcs)
CanRead(h)  == \A g \in Handles \ {h} : pc[g] \notin WritePcs

\* A Handle operation starts on an idle handle.
Begin(h) == pc[h] = "idle" /\ calls < MaxCalls /\ calls' = calls + 1

Goto(h, l)     == pc' = [pc EXCEPT ![h] = l]
\* A call returns: res is its result, data the frame tuple it carries (if any).
Return(o, r, d) == ret' = [op |-> o, res |-> r, data |-> d]

\* gen of the last seek that has cleared the buffer / cleared upload_frame: the
\* seek in progress (the write guard admits one) has not yet done so.
BufClearGen  == gen - (IF \E h \in Handles : pc[h] \in {"seek_sub", "seek_subflag", "seek_buf"}
                       THEN 1 ELSE 0)
FlagClearGen == gen - (IF \E h \in Handles :
                             pc[h] \in {"seek_sub", "seek_subflag", "seek_buf", "seek_flag"}
                       THEN 1 ELSE 0)

\* Text samples: a cue with its timestamp and duration.
Cues == [pts : 1..MaxFrames, dur : {1}]

\* text_running_time_end > frame_running_time && frame_running_time_end > text_running_time
\* (a video frame lasts one time unit)
Overlaps(cue, f) == cue.pts + cue.dur > f.id /\ f.id + 1 > cue.pts

\* ------------------------------------------------------- Sampling Worker
\* while alive_ref.load(Ordering::Acquire)
WLoop ==
    /\ wpc = "loop"
    /\ wpc' = IF alive THEN "drain" ELSE "stopped"
    /\ ret' = NoRet
    /\ seekReq' = NoSeek
    /\ UNCHANGED <<lockVars, paintVars, sizeVars, newVars, internalVars, handleVars, wSample, wCap, wPlaying, wText,
                   clear_subtitles_at, pipeVars, histVars>>

\* A drain that takes every message for end-of-stream.
WDrain_ErrorAsEos ==
    /\ wpc = "drain"
    /\ IF bus # <<>>
       THEN /\ bus' = Tail(bus)
            /\ is_eos' = TRUE
            /\ wpc' = "drain"
       ELSE /\ wpc' = "eoscheck"
            /\ UNCHANGED <<bus, is_eos>>
    /\ ret' = NoRet
    /\ seekReq' = NoSeek
    /\ eosDrained' = IF /\ bus # <<>> /\ Head(bus) = "Eos"
                        /\ \E h \in Handles : InSeekOrRestart(h)
                     THEN TRUE ELSE eosDrained
    /\ UNCHANGED <<lastPop, lockVars, paintVars, sizeVars, newVars, source, alive, worker, width, height, speed, frame, upload_frame,
                   frame_buffer, frame_buffer_capacity, restart_stream, subtitle_text,
                   upload_text, handleVars, wSample, wCap, wPlaying, wText,
                   clear_subtitles_at, events, delivered, gen,
                   teardowns, joined, unconsumed, pubSinceTrue,
                   lastWritten, staleReady, pushedInSeek>>

\* while let Some(msg) = bus_ref.timed_pop(0): one message per step
WDrain ==
    /\ wpc = "drain"
    /\ IF bus # <<>>
       THEN /\ bus' = Tail(bus)
            /\ is_eos' = IF Head(bus) = "Eos" THEN TRUE ELSE is_eos
            /\ wpc' = "drain"
       ELSE /\ wpc' = "eoscheck"
            /\ UNCHANGED <<bus, is_eos>>
    /\ ret' = NoRet
    /\ seekReq' = NoSeek
    /\ eosDrained' = IF /\ bus # <<>> /\ Head(bus) = "Eos"
                        /\ \E h \in Handles : InSeekOrRestart(h)
                     THEN TRUE ELSE eosDrained
    /\ UNCHANGED <<lastPop, lockVars, paintVars, sizeVars, newVars, source, alive, worker, width, height, speed, frame, upload_frame,
                   frame_buffer, frame_buffer_capacity, restart_stream, subtitle_text,
                   upload_text, handleVars, wSample, wCap, wPlaying, wText,
                   clear_subtitles_at, events, delivered, gen,
                   teardowns, joined, unconsumed, pubSinceTrue,
                   lastWritten, staleReady, pushedInSeek>>

\* A worker that goes on to pull whatever is_eos is.
WEosCheck_NoIdle ==
    /\ wpc = "eoscheck"
    /\ wpc' = "state"
    /\ ret' = NoRet
    /\ seekReq' = NoSeek
    /\ UNCHANGED <<lockVars, paintVars, sizeVars, newVars, internalVars, handleVars, wSample, wCap,
                   wPlaying, wText, clear_subtitles_at, pipeVars, histVars>>

\* if is_eos_ref.load() { sleep(50ms); continue; }
WEosCheck ==
    /\ wpc = "eoscheck"
    /\ wpc' = IF is_eos THEN "loop" ELSE "state"
    /\ ret' = NoRet
    /\ seekReq' = NoSeek
    /\ UNCHANGED <<lockVars, paintVars, sizeVars, newVars, internalVars, handleVars, wSample, wCap, wPlaying, wText,
                   clear_subtitles_at, pipeVars, histVars>>

\* The pull the worker makes: if pipeline_ref.state(ZERO).1 != Playing
\* { video_sink.try_pull_preroll(16 ms) } else { video_sink.try_pull_sample(16 ms) }
PullVariant == IF wPlaying THEN "try_pull_sample" ELSE "try_pull_preroll"

\* A worker that takes the pipeline for Playing without looking.
WState_AlwaysPlaying ==
    /\ wpc = "state"
    /\ wPlaying' = TRUE
    /\ wpc' = "pull"
    /\ ret' = NoRet
    /\ seekReq' = NoSeek
    /\ UNCHANGED <<lockVars, paintVars, sizeVars, newVars, internalVars, handleVars, wSample, wCap,
                   wText, clear_subtitles_at, pipeVars, histVars>>

\* pipeline_ref.state(ZERO).1 != gst::State::Playing
WState ==
    /\ wpc = "state"
    /\ wPlaying' = (source = "Playing")
    /\ wpc' = "pull"
    /\ ret' = NoRet
    /\ seekReq' = NoSeek
    /\ UNCHANGED <<lockVars, paintVars, sizeVars, newVars, internalVars, handleVars, wSample, wCap, wText,
                   clear_subtitles_at, pipeVars, histVars>>

\* A pull that blocks until a sample arrives, in place of the 16 ms timeout.
WPull_Blocking ==
    /\ wpc = "pull"
    /\ delivered < MaxFrames
    /\ source # "Null"
    /\ delivered' = delivered + 1
    /\ wSample' = [id |-> delivered + 1, gen |-> gen]
    /\ wpc' = "slot"
    /\ ret' = NoRet
    /\ seekReq' = NoSeek
    /\ UNCHANGED <<lockVars, paintVars, sizeVars, newVars, internalVars, handleVars, wCap, wPlaying, wText, clear_subtitles_at,
                   bus, events, gen, histVars>>

\* try_pull_preroll / try_pull_sample with a 16 ms timeout, then the checks of
\* segment, buffer, pts and duration (an Err is logged by the loop).
WPull ==
    /\ wpc = "pull"
    /\ \/ /\ wpc' = "loop"                         \* timeout: Ok(())
          /\ UNCHANGED <<wSample, delivered, events>>
       \/ /\ delivered < MaxFrames
          /\ source # "Null"
          /\ delivered' = delivered + 1
          /\ wSample' = [id |-> delivered + 1, gen |-> gen]
          /\ wpc' = "slot"
          /\ UNCHANGED events
       \/ /\ delivered < MaxFrames                \* Err(FlowError::Error)
          /\ events < MaxEvents
          /\ source # "Null"
          /\ delivered' = delivered + 1
          /\ events' = events + 1
          /\ wpc' = "loop"
          /\ UNCHANGED wSample
    /\ ret' = NoRet
    /\ seekReq' = NoSeek
    /\ UNCHANGED <<lockVars, paintVars, sizeVars, newVars, internalVars, handleVars, wCap, wPlaying, wText, clear_subtitles_at,
                   bus, gen, histVars>>

\* A worker that marks the frame ready where it should write the slot.
WSlot_ReadyFirst ==
    /\ wpc = "slot"
    /\ upload_frame' = TRUE
    /\ wpc' = "capload"
    /\ ret' = NoRet
    /\ seekReq' = NoSeek
    /\ UNCHANGED <<lockVars, paintVars, sizeVars, newVars, source, alive, worker, width, height, speed,
                   frame, frame_buffer, frame_buffer_capacity, is_eos,
                   restart_stream, subtitle_text, upload_text, handleVars, wSample,
                   wCap, wPlaying, wText, clear_subtitles_at, pipeVars, histVars>>

\* *frame_ref.lock() = Frame(sample)
WSlot ==
    /\ wpc = "slot"
    /\ frame' = wSample
    /\ lastWritten' = wSample
    /\ wpc' = "capload"
    /\ ret' = NoRet
    /\ seekReq' = NoSeek
    /\ UNCHANGED <<lastPop, eosDrained, lockVars, paintVars, sizeVars, newVars, source, alive, worker, width, height, speed, upload_frame,
                   frame_buffer, frame_buffer_capacity, is_eos, restart_stream,
                   subtitle_text, upload_text, handleVars, wSample, wCap, wPlaying,
                   wText, clear_subtitles_at, pipeVars, teardowns, joined, unconsumed,
                   pubSinceTrue, staleReady, pushedInSeek>>

\* A worker that pushes to the buffer whatever the capacity is.
WCapLoad_PushAlways ==
    /\ wpc = "capload"
    /\ wCap' = frame_buffer_capacity
    /\ wpc' = "push"
    /\ ret' = NoRet
    /\ seekReq' = NoSeek
    /\ UNCHANGED <<lockVars, paintVars, sizeVars, newVars, internalVars, handleVars, wSample, wPlaying,
                   wText, clear_subtitles_at, pipeVars, histVars>>

\* let capacity = frame_buffer_capacity_ref.load(); if capacity > 0 {
WCapLoad ==
    /\ wpc = "capload"
    /\ wCap' = frame_buffer_capacity
    /\ wpc' = IF frame_buffer_capacity > 0 THEN "push" ELSE "ready"
    /\ ret' = NoRet
    /\ seekReq' = NoSeek
    /\ UNCHANGED <<lockVars, paintVars, sizeVars, newVars, internalVars, handleVars, wSample, wPlaying, wText,
                   clear_subtitles_at, pipeVars, histVars>>

\* A push at the front of the buffer that evicts from the back.
WPush_Front ==
    /\ wpc = "push"
    /\ frame_buffer' = IF Len(frame_buffer) + 1 > wCap
                       THEN SubSeq(<<frame>> \o frame_buffer, 1, wCap)
                       ELSE <<frame>> \o frame_buffer
    /\ pushedInSeek' = \E h \in Handles : pc[h] = "seek_flag"
    /\ wpc' = "ready"
    /\ ret' = NoRet
    /\ seekReq' = NoSeek
    /\ UNCHANGED <<lastPop, eosDrained, lockVars, paintVars, sizeVars, newVars, source, alive, worker,
                   width, height, speed, frame, upload_frame,
                   frame_buffer_capacity, is_eos, restart_stream, subtitle_text,
                   upload_text, handleVars, wSample, wCap, wPlaying, wText,
                   clear_subtitles_at, pipeVars, teardowns, joined, unconsumed,
                   pubSinceTrue, lastWritten, staleReady>>

\* let sample_for_buffer = frame_ref.lock().0.clone()  (the slot, which only the
\* worker writes; its lock is released at the end of the statement), then, under
\* the buffer's lock: buf.push_back(..); while buf.len() > capacity { buf.pop_front(); }
WPush ==
    /\ wpc = "push"
    /\ frame_buffer' = TrimFront(Append(frame_buffer, frame), wCap)
    /\ pushedInSeek' = \E h \in Handles : pc[h] = "seek_flag"
    /\ wpc' = "ready"
    /\ ret' = NoRet
    /\ seekReq' = NoSeek
    /\ UNCHANGED <<lastPop, eosDrained, lockVars, paintVars, sizeVars, newVars, source, alive, worker, width, height, speed, frame, upload_frame,
                   frame_buffer_capacity, is_eos, restart_stream, subtitle_text,
                   upload_text, handleVars, wSample, wCap, wPlaying, wText,
                   clear_subtitles_at, pipeVars, teardowns, joined, unconsumed,
                   pubSinceTrue, lastWritten, staleReady>>

\* upload_frame_ref.store(true)
WReady ==
    /\ wpc = "ready"
    /\ upload_frame' = TRUE
    /\ unconsumed' = unconsumed + 1
    /\ pubSinceTrue' = TRUE
    /\ staleReady' = (wSample.gen < FlagClearGen)
    /\ wpc' = "subclear"
    /\ ret' = NoRet
    /\ seekReq' = NoSeek
    /\ UNCHANGED <<lastPop, eosDrained, lockVars, paintVars, sizeVars, newVars, source, alive, worker, width, height, speed, frame, frame_buffer,
                   frame_buffer_capacity, is_eos, restart_stream, subtitle_text,
                   upload_text, handleVars, wSample, wCap, wPlaying, wText,
                   clear_subtitles_at, pipeVars, teardowns, joined, lastWritten,
                   pushedInSeek>>

\* if let Some(at) = clear_subtitles_at && frame_pts >= at: the pending clear is due
\* for the frame of this iteration
ClearDue == clear_subtitles_at # NoTime /\ wSample.id >= clear_subtitles_at

\* A subtitle clear that waits for a frame strictly after the pending clear time.
WSubClear_Late ==
    /\ wpc = "subclear"
    /\ IF clear_subtitles_at # NoTime /\ wSample.id > clear_subtitles_at
       THEN subtitle_text' = NoCue /\ wpc' = "subclearflag"
       ELSE UNCHANGED subtitle_text /\ wpc' = "textpull"
    /\ ret' = NoRet
    /\ seekReq' = NoSeek
    /\ UNCHANGED <<lockVars, paintVars, sizeVars, newVars, source, alive, worker, width, height, speed,
                   frame, upload_frame, frame_buffer, frame_buffer_capacity, is_eos,
                   restart_stream, upload_text, handleVars, wSample, wCap, wPlaying,
                   wText, clear_subtitles_at, pipeVars, histVars>>

\* if let Some(at) = clear_subtitles_at && frame_pts >= at { *subtitle_text_ref.lock() = None;
WSubClear ==
    /\ wpc = "subclear"
    /\ IF clear_subtitles_at # NoTime /\ wSample.id >= clear_subtitles_at
       THEN subtitle_text' = NoCue /\ wpc' = "subclearflag"
       ELSE UNCHANGED subtitle_text /\ wpc' = "textpull"
    /\ ret' = NoRet
    /\ seekReq' = NoSeek
    /\ UNCHANGED <<lockVars, paintVars, sizeVars, newVars, source, alive, worker, width, height, speed, frame, upload_frame,
                   frame_buffer, frame_buffer_capacity, is_eos, restart_stream,
                   upload_text, handleVars, wSample, wCap, wPlaying, wText,
                   clear_subtitles_at, pipeVars, histVars>>

\* upload_text_ref.store(true); clear_subtitles_at = None; }
WSubClearFlag ==
    /\ wpc = "subclearflag"
    /\ upload_text' = TRUE
    /\ clear_subtitles_at' = NoTime
    /\ wpc' = "textpull"
    /\ ret' = NoRet
    /\ seekReq' = NoSeek
    /\ UNCHANGED <<lockVars, paintVars, sizeVars, newVars, source, alive, worker, width, height, speed, frame, upload_frame,
                   frame_buffer, frame_buffer_capacity, is_eos, restart_stream,
                   subtitle_text, handleVars, wSample, wCap, wPlaying, wText,
                   pipeVars, histVars>>

\* A worker that activates every cue it pulls.
WTextPull_NoOverlapTest ==
    /\ wpc = "textpull"
    /\ \/ /\ wpc' = "loop"                         \* no text sink, or no cue
          /\ UNCHANGED <<wText, events>>
       \/ /\ events < MaxEvents
          /\ source # "Null"
          /\ events' = events + 1
          /\ \E cue \in Cues :
               \/ /\ wText' = cue
                  /\ wpc' = "subset"
               \/ /\ wpc' = "loop"                 \* no overlap, or Err(FlowError::Error)
                  /\ UNCHANGED wText
    /\ ret' = NoRet
    /\ seekReq' = NoSeek
    /\ UNCHANGED <<lockVars, paintVars, sizeVars, newVars, internalVars, handleVars, wSample, wCap, wPlaying,
                   clear_subtitles_at, bus, delivered, gen, histVars>>

\* text_sink.try_pull_sample(0), the checks of the cue, the overlap test and the
\* mapping of its bytes (an Err is logged by the loop)
WTextPull ==
    /\ wpc = "textpull"
    /\ \/ /\ wpc' = "loop"                         \* no text sink, or no cue
          /\ UNCHANGED <<wText, events>>
       \/ /\ events < MaxEvents
          /\ source # "Null"
          /\ events' = events + 1
          /\ \E cue \in Cues :
               \/ /\ Overlaps(cue, wSample)
                  /\ wText' = cue
                  /\ wpc' = "subset"
               \/ /\ wpc' = "loop"                 \* no overlap, or Err(FlowError::Error)
                  /\ UNCHANGED wText
    /\ ret' = NoRet
    /\ seekReq' = NoSeek
    /\ UNCHANGED <<lockVars, paintVars, sizeVars, newVars, internalVars, handleVars, wSample, wCap, wPlaying,
                   clear_subtitles_at, bus, delivered, gen, histVars>>

\* *subtitle_text_ref.lock() = Some(text)
WSubSet ==
    /\ wpc = "subset"
    /\ subtitle_text' = wText
    /\ wpc' = "subsetflag"
    /\ ret' = NoRet
    /\ seekReq' = NoSeek
    /\ UNCHANGED <<lockVars, paintVars, sizeVars, newVars, source, alive, worker, width, height, speed, frame, upload_frame,
                   frame_buffer, frame_buffer_capacity, is_eos, restart_stream,
                   upload_text, handleVars, wSample, wCap, wPlaying, wText,
                   clear_subtitles_at, pipeVars, histVars>>

\* upload_text_ref.store(true); clear_subtitles_at = Some(text_pts + duration)
WSubSetFlag ==
    /\ wpc = "subsetflag"
    /\ upload_text' = TRUE
    /\ clear_subtitles_at' = wText.pts + wText.dur
    /\ wText' = NoCue
    /\ wpc' = "loop"
    /\ ret' = NoRet
    /\ seekReq' = NoSeek
    /\ UNCHANGED <<lockVars, paintVars, sizeVars, newVars, source, alive, worker, width, height, speed, frame, upload_frame,
                   frame_buffer, frame_buffer_capacity, is_eos, restart_stream,
                   subtitle_text, handleVars, wSample, wCap, wPlaying, pipeVars,
                   histVars>>

\* The worker's closure panics (an unwinding from any statement of the loop): the
\* thread ends without running the rest of the loop; the guard of a parking_lot
\* mutex it holds is released by the unwinding.
WPanic ==
    /\ wpc \notin {"unspawned", "stopped", "panicked"}
    /\ wpc' = "panicked"
    /\ ret' = NoRet
    /\ seekReq' = NoSeek
    /\ UNCHANGED <<lockVars, paintVars, sizeVars, newVars, internalVars, handleVars, wSample, wCap,
                   wPlaying, wText, clear_subtitles_at, pipeVars, histVars>>

WorkerNext ==
    \/ WLoop \/ WDrain \/ WEosCheck \/ WState \/ WPull \/ WSlot \/ WCapLoad
    \/ WPush \/ WReady \/ WSubClear \/ WSubClearFlag \/ WTextPull
    \/ WSubSet \/ WSubSetFlag

\* ------------------------------------------------------------ Handle: Clone
\* #[derive(Clone)] on Video: Arc::clone
Clone(h) ==
    /\ pc[h] = "idle"
    /\ \E g \in Handles :
         /\ pc[g] = "unborn"
         /\ \A k \in Handles : pc[k] = "unborn" => g <= k
         /\ pc' = [pc EXCEPT ![g] = "idle"]
    /\ ret' = NoRet
    /\ seekReq' = NoSeek
    /\ UNCHANGED <<lockVars, paintVars, sizeVars, newVars, internalVars, arg, pre, calls, workerVars, pipeVars, histVars>>

\* ------------------------------------------------------------- Handle: Drop
\* A drop that tears down whenever it gets the write guard, whatever the strong count.
DropCheck_AnyCount(h) ==
    /\ pc[h] = "idle"
    /\ IF CanWrite(h)
       THEN Goto(h, "drop_null") /\ teardowns' = teardowns + 1
       ELSE Goto(h, "drop_dec") /\ UNCHANGED teardowns
    /\ ret' = NoRet
    /\ seekReq' = NoSeek
    /\ UNCHANGED <<lastPop, eosDrained, lockVars, paintVars, sizeVars, newVars, internalVars, arg, pre, calls, workerVars, pipeVars, joined,
                   unconsumed, pubSinceTrue, lastWritten, staleReady, pushedInSeek>>

\* if Arc::strong_count(&self.0) == 1 && let Some(mut inner) = self.0.try_write()
DropCheck(h) ==
    /\ pc[h] = "idle"
    /\ IF StrongCount = 1 /\ CanWrite(h)
       THEN Goto(h, "drop_null") /\ teardowns' = teardowns + 1
       ELSE Goto(h, "drop_dec") /\ UNCHANGED teardowns
    /\ ret' = NoRet
    /\ seekReq' = NoSeek
    /\ UNCHANGED <<lastPop, eosDrained, lockVars, paintVars, sizeVars, newVars, internalVars, arg, pre, calls, workerVars, pipeVars, joined,
                   unconsumed, pubSinceTrue, lastWritten, staleReady, pushedInSeek>>

\* inner.source.set_state(gst::State::Null)
DropNull(h) ==
    /\ pc[h] = "drop_null"
    /\ source' = "Null"
    /\ Goto(h, "drop_alive")
    /\ ret' = NoRet
    /\ seekReq' = NoSeek
    /\ UNCHANGED <<lockVars, paintVars, sizeVars, newVars, alive, worker, width, height, speed, frame, upload_frame,
                   frame_buffer, frame_buffer_capacity, is_eos, restart_stream,
                   subtitle_text, upload_text, arg, pre, calls, workerVars, pipeVars,
                   histVars>>

\* inner.alive.store(false)
DropAlive(h) ==
    /\ pc[h] = "drop_alive"
    /\ alive' = FALSE
    /\ Goto(h, "drop_take")
    /\ ret' = NoRet
    /\ seekReq' = NoSeek
    /\ UNCHANGED <<lockVars, paintVars, sizeVars, newVars, source, worker, width, height, speed, frame, upload_frame,
                   frame_buffer, frame_buffer_capacity, is_eos, restart_stream,
                   subtitle_text, upload_text, arg, pre, calls, workerVars, pipeVars,
                   histVars>>

\* if let Some(worker) = inner.worker.take()
DropTake(h) ==
    /\ pc[h] = "drop_take"
    /\ IF worker = "Some"
       THEN worker' = "None" /\ Goto(h, "drop_join")
       ELSE UNCHANGED worker /\ Goto(h, "drop_dec")
    /\ ret' = NoRet
    /\ seekReq' = NoSeek
    /\ UNCHANGED <<lockVars, paintVars, sizeVars, newVars, source, alive, width, height, speed, frame, upload_frame,
                   frame_buffer, frame_buffer_capacity, is_eos, restart_stream,
                   subtitle_text, upload_text, arg, pre, calls, workerVars, pipeVars,
                   histVars>>

\* A join whose Err is unwrapped: the worker's panic goes on in the dropping thread.
DropJoin_Propagating(h) ==
    /\ pc[h] = "drop_join"
    /\ wpc \in {"stopped", "panicked"}
    /\ joined' = TRUE
    /\ Goto(h, IF wpc = "panicked" THEN "panicked" ELSE "drop_dec")
    /\ Return("join", IF wpc = "panicked" THEN "Err" ELSE "Ok", <<>>)
    /\ seekReq' = NoSeek
    /\ UNCHANGED <<lastPop, eosDrained, lockVars, paintVars, sizeVars, newVars, internalVars, arg, pre,
                   calls, workerVars, pipeVars, teardowns, unconsumed, pubSinceTrue,
                   lastWritten, staleReady, pushedInSeek>>

\* && let Err(err) = worker.join() { log::error!(..) }: join returns once the
\* worker thread has ended, Ok(()) if its closure returned and Err(payload) if it
\* panicked; the Err is logged and drop goes on.
DropJoin(h) ==
    /\ pc[h] = "drop_join"
    /\ wpc \in {"stopped", "panicked"}
    /\ joined' = TRUE
    /\ Goto(h, "drop_dec")
    /\ Return("join", IF wpc = "panicked" THEN "Err" ELSE "Ok", <<>>)
    /\ seekReq' = NoSeek
    /\ UNCHANGED <<lastPop, eosDrained, lockVars, paintVars, sizeVars, newVars, internalVars, arg, pre, calls, workerVars, pipeVars, teardowns,
                   unconsumed, pubSinceTrue, lastWritten, staleReady, pushedInSeek>>

\* drop returns; the Arc field is dropped (the strong count goes down by one)
DropDec(h) ==
    /\ pc[h] = "drop_dec"
    /\ Goto(h, "dropped")
    /\ ret' = NoRet
    /\ seekReq' = NoSeek
    /\ UNCHANGED <<lockVars, paintVars, sizeVars, newVars, internalVars, arg, pre, calls, workerVars, pipeVars, histVars>>

\* A seek that asks the pipeline for the normal rate 1.0 whatever the stored speed is.
SeekCall_UnitRate(h, ok) ==
    /\ Begin(h)
    /\ CanWrite(h)
    /\ \E position \in Positions :
         seekReq' = SeekReq(1, SeekSet(position), SeekSet(NoTime), ok)
    /\ IF ok
       THEN /\ gen' = gen + 1
            /\ arg' = [arg EXCEPT ![h] = Arg("seek", FALSE, 0)]
            /\ pre' = [pre EXCEPT ![h] = (frame_buffer # <<>> /\ upload_frame)]
            /\ Goto(h, "seek_sub")
            /\ ret' = NoRet
       ELSE /\ Return("seek", "Err", <<>>)
            /\ UNCHANGED <<gen, arg, pc, pre>>
    /\ eosDrained' = IF ok THEN FALSE ELSE eosDrained
    /\ UNCHANGED <<lastPop, lockVars, paintVars, sizeVars, newVars, internalVars, workerVars, bus, events,
                   delivered, teardowns, joined, unconsumed, pubSinceTrue,
                   lastWritten, staleReady, pushedInSeek>>

\* A seek that clears the buffer and frame_ready before it asks the pipeline.
SeekCall_ClearFirst(h, ok) ==
    /\ Begin(h)
    /\ CanWrite(h)
    /\ \E position \in Positions :
         seekReq' = SeekReq(speed, SeekSet(position), SeekSet(NoTime), ok)
    /\ frame_buffer' = <<>>
    /\ upload_frame' = FALSE
    /\ IF ok
       THEN /\ gen' = gen + 1
            /\ arg' = [arg EXCEPT ![h] = Arg("seek", FALSE, 0)]
            /\ pre' = [pre EXCEPT ![h] = (frame_buffer # <<>> /\ upload_frame)]
            /\ Goto(h, "seek_sub")
            /\ ret' = NoRet
       ELSE /\ Return("seek", "Err", <<>>)
            /\ UNCHANGED <<gen, arg, pc, pre>>
    /\ eosDrained' = IF ok THEN FALSE ELSE eosDrained
    /\ UNCHANGED <<lastPop, lockVars, paintVars, sizeVars, newVars, source, alive, worker, width, height, speed, frame,
                   frame_buffer_capacity, is_eos, restart_stream, subtitle_text,
                   upload_text, workerVars, bus, events, delivered, teardowns,
                   joined, unconsumed, pubSinceTrue, lastWritten, staleReady,
                   pushedInSeek>>

\* ------------------------------------------------------------- Handle: seek
\* self.write().seek(position, accurate): self.source.seek(self.speed, FLUSH | .., position)?
\* The pipeline accepts the flush seek (ok) or rejects it.
SeekCall(h, ok) ==
    /\ Begin(h)
    /\ CanWrite(h)
    /\ \E position \in Positions :
         seekReq' = SeekReq(speed, SeekSet(position), SeekSet(NoTime), ok)
    /\ IF ok
       THEN /\ gen' = gen + 1
            /\ arg' = [arg EXCEPT ![h] = Arg("seek", FALSE, 0)]
            /\ pre' = [pre EXCEPT ![h] = (frame_buffer # <<>> /\ upload_frame)]
            /\ Goto(h, "seek_sub")
            /\ ret' = NoRet
       ELSE /\ Return("seek", "Err", <<>>)
            /\ UNCHANGED <<gen, arg, pc, pre>>
    /\ eosDrained' = IF ok THEN FALSE ELSE eosDrained
    /\ UNCHANGED <<lastPop, lockVars, paintVars, sizeVars, newVars, internalVars, workerVars, bus, events, delivered,
                   teardowns, joined, unconsumed, pubSinceTrue,
                   lastWritten, staleReady, pushedInSeek>>

\* *self.subtitle_text.lock() = None
SeekSub(h) ==
    /\ pc[h] = "seek_sub"
    /\ subtitle_text' = NoCue
    /\ Goto(h, "seek_subflag")
    /\ ret' = NoRet
    /\ seekReq' = NoSeek
    /\ UNCHANGED <<lockVars, paintVars, sizeVars, newVars, source, alive, worker, width, height, speed, frame, upload_frame,
                   frame_buffer, frame_buffer_capacity, is_eos, restart_stream,
                   upload_text, arg, pre, calls, workerVars, pipeVars, histVars>>

\* self.upload_text.store(true)
SeekSubFlag(h) ==
    /\ pc[h] = "seek_subflag"
    /\ upload_text' = TRUE
    /\ Goto(h, "seek_buf")
    /\ ret' = NoRet
    /\ seekReq' = NoSeek
    /\ UNCHANGED <<lockVars, paintVars, sizeVars, newVars, source, alive, worker, width, height, speed, frame, upload_frame,
                   frame_buffer, frame_buffer_capacity, is_eos, restart_stream,
                   subtitle_text, arg, pre, calls, workerVars, pipeVars, histVars>>

\* A seek that leaves the ring buffer as it is.
SeekBuf_NoClear(h) ==
    /\ pc[h] = "seek_buf"
    /\ pushedInSeek' = FALSE
    /\ Goto(h, "seek_flag")
    /\ ret' = NoRet
    /\ seekReq' = NoSeek
    /\ UNCHANGED <<lastPop, eosDrained, lockVars, paintVars, sizeVars, newVars, internalVars, arg, pre, calls, workerVars, pipeVars, teardowns,
                   joined, unconsumed, pubSinceTrue, lastWritten, staleReady>>

\* A seek that also resets the slot to the empty sentinel.
SeekBuf_ResetSlot(h) ==
    /\ pc[h] = "seek_buf"
    /\ frame_buffer' = <<>>
    /\ frame' = EmptyFrame
    /\ pushedInSeek' = FALSE
    /\ Goto(h, "seek_flag")
    /\ ret' = NoRet
    /\ seekReq' = NoSeek
    /\ UNCHANGED <<lastPop, eosDrained, lockVars, paintVars, sizeVars, newVars, source, alive, worker, width, height, speed, upload_frame,
                   frame_buffer_capacity, is_eos, restart_stream, subtitle_text,
                   upload_text, arg, pre, calls, workerVars, pipeVars, teardowns,
                   joined, unconsumed, pubSinceTrue, lastWritten, staleReady>>

\* self.frame_buffer.lock().clear()
SeekBuf(h) ==
    /\ pc[h] = "seek_buf"
    /\ frame_buffer' = <<>>
    /\ pushedInSeek' = FALSE
    /\ Goto(h, "seek_flag")
    /\ ret' = NoRet
    /\ seekReq' = NoSeek
    /\ UNCHANGED <<lastPop, eosDrained, lockVars, paintVars, sizeVars, newVars, source, alive, worker, width, height, speed, frame, upload_frame,
                   frame_buffer_capacity, is_eos, restart_stream, subtitle_text,
                   upload_text, arg, pre, calls, workerVars, pipeVars, teardowns,
                   joined, unconsumed, pubSinceTrue, lastWritten, staleReady>>

\* self.upload_frame.store(false); Ok(())
SeekFlag(h) ==
    /\ pc[h] = "seek_flag"
    /\ upload_frame' = FALSE
    /\ staleReady' = FALSE
    /\ pushedInSeek' = FALSE
    /\ eosDrained' = FALSE
    /\ Return(arg[h].op, "Ok", <<>>)
    /\ arg' = [arg EXCEPT ![h] = None]
    /\ pre' = [pre EXCEPT ![h] = FALSE]
    /\ Goto(h, "idle")
    /\ seekReq' = NoSeek
    /\ UNCHANGED <<lastPop, lockVars, paintVars, sizeVars, newVars, source, alive, worker, width, height, speed, frame, frame_buffer,
                   frame_buffer_capacity, is_eos, restart_stream, subtitle_text,
                   upload_text, calls, workerVars, pipeVars, teardowns, joined,
                   unconsumed, pubSinceTrue, lastWritten>>

\* A restart that leaves is_eos as it is.
RestartEos_NoClear(h) ==
    /\ Begin(h)
    /\ CanWrite(h)
    /\ arg' = [arg EXCEPT ![h] = Arg("restart", FALSE, 0)]
    /\ Goto(h, "restart_play")
    /\ ret' = NoRet
    /\ seekReq' = NoSeek
    /\ eosDrained' = FALSE
    /\ UNCHANGED <<lastPop, lockVars, paintVars, sizeVars, newVars, internalVars, pre, workerVars, pipeVars, teardowns,
                   joined, unconsumed, pubSinceTrue, lastWritten, staleReady,
                   pushedInSeek>>

\* --------------------------------------------------- Handle: restart_stream
\* self.write().restart_stream(): self.is_eos.store(false)
RestartEos(h) ==
    /\ Begin(h)
    /\ CanWrite(h)
    /\ is_eos' = FALSE
    /\ arg' = [arg EXCEPT ![h] = Arg("restart", FALSE, 0)]
    /\ Goto(h, "restart_play")
    /\ ret' = NoRet
    /\ seekReq' = NoSeek
    /\ eosDrained' = FALSE
    /\ UNCHANGED <<lastPop, lockVars, paintVars, sizeVars, newVars, source, alive, worker, width, height, speed, frame, upload_frame,
                   frame_buffer, frame_buffer_capacity, restart_stream, subtitle_text,
                   upload_text, pre, workerVars, pipeVars, teardowns, joined, unconsumed, pubSinceTrue,
                   lastWritten, staleReady, pushedInSeek>>

\* self.set_paused(false): self.source.set_state(Playing)
RestartPlay(h) ==
    /\ pc[h] = "restart_play"
    /\ source' = "Playing"
    /\ Goto(h, "restart_flag")
    /\ ret' = NoRet
    /\ seekReq' = NoSeek
    /\ UNCHANGED <<lockVars, paintVars, sizeVars, newVars, alive, worker, width, height, speed, frame, upload_frame,
                   frame_buffer, frame_buffer_capacity, is_eos, restart_stream,
                   subtitle_text, upload_text, arg, pre, calls, workerVars, pipeVars,
                   histVars>>

\* self.set_paused(false): if self.is_eos.load() && !paused { self.restart_stream = true }
RestartFlag(h) ==
    /\ pc[h] = "restart_flag"
    /\ restart_stream' = IF is_eos THEN TRUE ELSE restart_stream
    /\ Goto(h, "restart_seek")
    /\ ret' = NoRet
    /\ seekReq' = NoSeek
    /\ UNCHANGED <<lockVars, paintVars, sizeVars, newVars, source, alive, worker, width, height, speed, frame, upload_frame,
                   frame_buffer, frame_buffer_capacity, is_eos, subtitle_text,
                   upload_text, arg, pre, calls, workerVars, pipeVars, histVars>>

\* A restart that clears the ring buffer and frame_ready also when its seek is rejected.
RestartSeek_ClearOnErr(h, ok) ==
    /\ pc[h] = "restart_seek"
    /\ seekReq' = SeekReq(speed, SeekSet(0), SeekSet(NoTime), ok)
    /\ IF ok
       THEN /\ gen' = gen + 1
            /\ pre' = [pre EXCEPT ![h] = (frame_buffer # <<>> /\ upload_frame)]
            /\ Goto(h, "seek_sub")
            /\ ret' = NoRet
            /\ UNCHANGED <<arg, frame_buffer, upload_frame>>
       ELSE /\ Return("restart", "Err", <<>>)
            /\ arg' = [arg EXCEPT ![h] = None]
            /\ Goto(h, "idle")
            /\ frame_buffer' = <<>>
            /\ upload_frame' = FALSE
            /\ UNCHANGED <<gen, pre>>
    /\ eosDrained' = IF ok THEN eosDrained ELSE FALSE
    /\ UNCHANGED <<lastPop, lockVars, paintVars, sizeVars, newVars, source, alive, worker,
                   width, height, speed, frame, frame_buffer_capacity, is_eos,
                   restart_stream, subtitle_text, upload_text, calls, workerVars,
                   bus, events, delivered, teardowns, joined, unconsumed,
                   pubSinceTrue, lastWritten, staleReady, pushedInSeek>>

\* self.seek(0, false)?: the pipeline call of Internal::seek
RestartSeek(h, ok) ==
    /\ pc[h] = "restart_seek"
    /\ seekReq' = SeekReq(speed, SeekSet(0), SeekSet(NoTime), ok)
    /\ IF ok
       THEN /\ gen' = gen + 1
            /\ pre' = [pre EXCEPT ![h] = (frame_buffer # <<>> /\ upload_frame)]
            /\ Goto(h, "seek_sub")
            /\ ret' = NoRet
            /\ UNCHANGED arg
       ELSE /\ Return("restart", "Err", <<>>)
            /\ arg' = [arg EXCEPT ![h] = None]
            /\ Goto(h, "idle")
            /\ UNCHANGED <<gen, pre>>
    /\ eosDrained' = IF ok THEN eosDrained ELSE FALSE
    /\ UNCHANGED <<lastPop, lockVars, paintVars, sizeVars, newVars, internalVars, calls, workerVars, bus, events, delivered,
                   teardowns, joined, unconsumed, pubSinceTrue,
                   lastWritten, staleReady, pushedInSeek>>

\* ------------------------------------------------------- Handle: set_paused
\* self.write().set_paused(paused): self.source.set_state(Paused | Playing)
PauseState(h, paused) ==
    /\ Begin(h)
    /\ CanWrite(h)
    /\ source' = IF paused THEN "Paused" ELSE "Playing"
    /\ arg' = [arg EXCEPT ![h] = Arg("set_paused", paused, 0)]
    /\ Goto(h, "pause_flag")
    /\ ret' = NoRet
    /\ seekReq' = NoSeek
    /\ UNCHANGED <<lockVars, paintVars, sizeVars, newVars, alive, worker, width, height, speed, frame, upload_frame,
                   frame_buffer, frame_buffer_capacity, is_eos, restart_stream,
                   subtitle_text, upload_text, pre, workerVars, pipeVars, histVars>>

\* A set_paused that marks the restart at end-of-stream whatever `paused` is.
PauseFlag_Always(h) ==
    /\ pc[h] = "pause_flag"
    /\ restart_stream' = IF is_eos THEN TRUE ELSE restart_stream
    /\ Return("set_paused", "Ok", <<>>)
    /\ arg' = [arg EXCEPT ![h] = None]
    /\ Goto(h, "idle")
    /\ seekReq' = NoSeek
    /\ UNCHANGED <<lockVars, paintVars, sizeVars, newVars, source, alive, worker, width, height, speed, frame,
                   upload_frame, frame_buffer, frame_buffer_capacity, is_eos,
                   subtitle_text, upload_text, pre, calls, workerVars, pipeVars,
                   histVars>>

\* if self.is_eos.load() && !paused { self.restart_stream = true }
PauseFlag(h) ==
    /\ pc[h] = "pause_flag"
    /\ restart_stream' = IF is_eos /\ ~arg[h].paused THEN TRUE ELSE restart_stream
    /\ Return("set_paused", "Ok", <<>>)
    /\ arg' = [arg EXCEPT ![h] = None]
    /\ Goto(h, "idle")
    /\ seekReq' = NoSeek
    /\ UNCHANGED <<lockVars, paintVars, sizeVars, newVars, source, alive, worker, width, height, speed, frame, upload_frame,
                   frame_buffer, frame_buffer_capacity, is_eos, subtitle_text,
                   upload_text, pre, calls, workerVars, pipeVars, histVars>>

\* self.source.set_state(..).unwrap() when the pipeline rejects the state change:
\* the call panics under the write guard, which the unwinding releases
\* (parking_lot locks are not poisoned); the holder's thread does not return.
PausePanic(h) ==
    /\ Begin(h)
    /\ CanWrite(h)
    /\ Return("set_paused", "Panic", <<>>)
    /\ Goto(h, "panicked")
    /\ seekReq' = NoSeek
    /\ UNCHANGED <<lockVars, paintVars, sizeVars, newVars, internalVars, arg, pre, workerVars, pipeVars,
                   histVars>>

\* restart_stream: self.set_paused(false) panics the same way, after is_eos has
\* been stored false.
RestartPanic(h) ==
    /\ pc[h] = "restart_play"
    /\ Return("restart", "Panic", <<>>)
    /\ arg' = [arg EXCEPT ![h] = None]
    /\ Goto(h, "panicked")
    /\ seekReq' = NoSeek
    /\ UNCHANGED <<lockVars, paintVars, sizeVars, newVars, internalVars, pre, calls, workerVars,
                   pipeVars, histVars>>

\* A call that aborts its thread.
Abort(h) == PausePanic(h) \/ RestartPanic(h)

\* A set_speed that records the new speed before it asks the pipeline anything.
SetSpeed_StoreFirst(h, rate, pos, ok) ==
    /\ Begin(h)
    /\ CanWrite(h)
    /\ speed' = rate
    /\ IF ~pos
       THEN /\ Return("set_speed", "ErrCaps", <<>>)
            /\ seekReq' = NoSeek
       ELSE /\ seekReq' = RateSeek(rate, Position, ok)
            /\ Return("set_speed", IF ok THEN "Ok" ELSE "Err", <<>>)
    /\ UNCHANGED <<lockVars, paintVars, sizeVars, newVars, source, alive, worker, width, height, frame, upload_frame,
                   frame_buffer, frame_buffer_capacity, is_eos, restart_stream,
                   subtitle_text, upload_text, pc, arg, pre, workerVars, pipeVars,
                   histVars>>

\* -------------------------------------------------------- Handle: set_speed
\* self.write().set_speed(speed): query_position (pos: it answers), the rate-change
\* seek (ok: the pipeline accepts it), self.speed = speed.
\* Done under the write guard on state the worker never reads: one step.
SetSpeed(h, rate, pos, ok) ==
    /\ Begin(h)
    /\ CanWrite(h)
    /\ IF ~pos
       THEN /\ Return("set_speed", "ErrCaps", <<>>)
            /\ seekReq' = NoSeek
            /\ UNCHANGED speed
       ELSE /\ seekReq' = RateSeek(rate, Position, ok)
            /\ IF ok
               THEN /\ speed' = rate
                    /\ Return("set_speed", "Ok", <<>>)
               ELSE /\ Return("set_speed", "Err", <<>>)
                    /\ UNCHANGED speed
    /\ UNCHANGED <<lockVars, paintVars, sizeVars, newVars, source, alive, worker, width, height, frame, upload_frame,
                   frame_buffer, frame_buffer_capacity, is_eos, restart_stream,
                   subtitle_text, upload_text, pc, arg, pre, workerVars, pipeVars,
                   histVars>>

\* A take_frame_ready that loads the flag and leaves it set.
TakeFrameReady_Load(h) ==
    /\ Begin(h)
    /\ CanRead(h)
    /\ Return("take_frame_ready", IF upload_frame THEN "true" ELSE "false", <<>>)
    /\ unconsumed' = IF upload_frame THEN unconsumed - 1 ELSE unconsumed
    /\ pubSinceTrue' = IF upload_frame THEN FALSE ELSE pubSinceTrue
    /\ seekReq' = NoSeek
    /\ UNCHANGED <<lastPop, eosDrained, lockVars, paintVars, sizeVars, newVars, internalVars, pc, arg, pre, workerVars, pipeVars, teardowns, joined,
                   lastWritten, staleReady, pushedInSeek>>

\* A current_frame_data that moves the frame out of the slot.
CurrentFrameData_Take(h) ==
    /\ Begin(h)
    /\ CanRead(h)
    /\ Return("current_frame_data",
              IF Readable(frame) = <<>> THEN "None" ELSE "Some",
              IF Readable(frame) = <<>> THEN <<>> ELSE <<Readable(frame), width, height>>)
    /\ frame' = EmptyFrame
    /\ seekReq' = NoSeek
    /\ UNCHANGED <<lockVars, paintVars, sizeVars, newVars, source, alive, worker, width, height, speed, upload_frame,
                   frame_buffer, frame_buffer_capacity, is_eos, restart_stream,
                   subtitle_text, upload_text, pc, arg, pre, workerVars, pipeVars,
                   histVars>>

\* ------------------------------------------------- Handle: frame retrieval
\* self.read().upload_frame.swap(false)
TakeFrameReady(h) ==
    /\ Begin(h)
    /\ CanRead(h)
    /\ Return("take_frame_ready", IF upload_frame THEN "true" ELSE "false", <<>>)
    /\ upload_frame' = FALSE
    /\ unconsumed' = IF upload_frame THEN unconsumed - 1 ELSE unconsumed
    /\ pubSinceTrue' = IF upload_frame THEN FALSE ELSE pubSinceTrue
    /\ staleReady' = FALSE
    /\ seekReq' = NoSeek
    /\ UNCHANGED <<lastPop, eosDrained, lockVars, paintVars, sizeVars, newVars, source, alive, worker, width, height, speed, frame, frame_buffer,
                   frame_buffer_capacity, is_eos, restart_stream, subtitle_text,
                   upload_text, pc, arg, pre, workerVars, pipeVars, teardowns, joined,
                   lastWritten, pushedInSeek>>

\* Some((data, inner.width as u32, inner.height as u32)) unless the bytes are missing or empty
FrameTuple(f, w, h) ==
    IF Readable(f) = <<>> THEN <<>> ELSE <<Readable(f), w, h>>

\* self.read(); inner.frame.lock().readable()
CurrentFrameData(h) ==
    /\ Begin(h)
    /\ CanRead(h)
    /\ Return("current_frame_data",
              IF FrameTuple(frame, width, height) = <<>> THEN "None" ELSE "Some",
              FrameTuple(frame, width, height))
    /\ seekReq' = NoSeek
    /\ UNCHANGED <<lockVars, paintVars, sizeVars, newVars, internalVars, pc, arg, pre, workerVars, pipeVars, histVars>>

\* set_frame_buffer_capacity(capacity): inner.frame_buffer_capacity.store(capacity)
CapStore(h, capacity) ==
    /\ Begin(h)
    /\ CanRead(h)
    /\ frame_buffer_capacity' = capacity
    /\ arg' = [arg EXCEPT ![h] =
                 Arg("set_frame_buffer_capacity", FALSE, capacity)]
    /\ Goto(h, "cap_trim")
    /\ ret' = NoRet
    /\ seekReq' = NoSeek
    /\ UNCHANGED <<lockVars, paintVars, sizeVars, newVars, source, alive, worker, width, height, speed, frame, upload_frame,
                   frame_buffer, is_eos, restart_stream, subtitle_text, upload_text,
                   pre, workerVars, pipeVars, histVars>>

\* A trim that drops the newest frames: buf.pop_back() in place of pop_front().
CapTrim_Back(h) ==
    /\ pc[h] = "cap_trim"
    /\ frame_buffer' = IF Len(frame_buffer) > arg[h].capacity
                       THEN SubSeq(frame_buffer, 1, arg[h].capacity)
                       ELSE frame_buffer
    /\ Return("set_frame_buffer_capacity", "Ok", <<>>)
    /\ arg' = [arg EXCEPT ![h] = None]
    /\ Goto(h, "idle")
    /\ seekReq' = NoSeek
    /\ UNCHANGED <<lockVars, paintVars, sizeVars, newVars, source, alive, worker, width, height, speed,
                   frame, upload_frame, frame_buffer_capacity, is_eos,
                   restart_stream, subtitle_text, upload_text, pre, calls,
                   workerVars, pipeVars, histVars>>

\* if capacity == 0 { buf.clear() } else { while buf.len() > capacity { buf.pop_front(); } }
CapTrim(h) ==
    /\ pc[h] = "cap_trim"
    /\ frame_buffer' = IF arg[h].capacity = 0 THEN <<>>
                     ELSE TrimFront(frame_buffer, arg[h].capacity)
    /\ Return("set_frame_buffer_capacity", "Ok", <<>>)
    /\ arg' = [arg EXCEPT ![h] = None]
    /\ Goto(h, "idle")
    /\ seekReq' = NoSeek
    /\ UNCHANGED <<lockVars, paintVars, sizeVars, newVars, source, alive, worker, width, height, speed, frame, upload_frame,
                   frame_buffer_capacity, is_eos, restart_stream, subtitle_text,
                   upload_text, pre, calls, workerVars, pipeVars, histVars>>

\* pop_buffered_frame: let (width, height) = self.size()  (the read guards are released)
PopSize(h) ==
    /\ Begin(h)
    /\ CanRead(h)
    /\ Goto(h, "pop_pop")
    /\ ret' = NoRet
    /\ seekReq' = NoSeek
    /\ UNCHANGED <<lockVars, paintVars, sizeVars, newVars, internalVars, arg, pre, workerVars, pipeVars, histVars>>

\* let inner = self.read(); inner.frame_buffer.lock().pop_front(); the frame's bytes
PopPop(h) ==
    /\ pc[h] = "pop_pop"
    /\ CanRead(h)
    /\ IF frame_buffer = <<>>
       THEN /\ Return("pop_buffered_frame", "None", <<>>)
            /\ UNCHANGED <<frame_buffer, lastPop>>
       ELSE /\ Return("pop_buffered_frame",
                      IF FrameTuple(Head(frame_buffer), width, height) = <<>>
                      THEN "None" ELSE "Some",
                      FrameTuple(Head(frame_buffer), width, height))
            /\ frame_buffer' = Tail(frame_buffer)
            /\ lastPop' = Head(frame_buffer).id
    /\ Goto(h, "idle")
    /\ seekReq' = NoSeek
    /\ UNCHANGED <<lockVars, paintVars, sizeVars, newVars, source, alive, worker, width, height, speed, frame, upload_frame,
                   frame_buffer_capacity, is_eos, restart_stream, subtitle_text,
                   upload_text, arg, pre, calls, workerVars, pipeVars, teardowns,
                   joined, unconsumed, pubSinceTrue, lastWritten, staleReady,
                   pushedInSeek, eosDrained>>

\* ---------------------------------------------- VideoElement::paint (element.rs)
\* let buffered = self.video.buffered_len(); let mut frame_to_render = None;
\* if buffered > 0 { .. } else { .. }
PaintLen(h) ==
    /\ Begin(h)
    /\ CanRead(h)
    /\ buffered' = Len(frame_buffer)
    /\ frame_to_render' = <<>>
    /\ Goto(h, IF Len(frame_buffer) > 0 THEN "paint_pop" ELSE "paint_slot")
    /\ ret' = NoRet
    /\ seekReq' = NoSeek
    /\ UNCHANGED <<lockVars, painted, sizeVars, newVars, internalVars, arg, pre, workerVars,
                   pipeVars, histVars>>

\* for _ in 0..buffered { if let Some(frame) = self.video.pop_buffered_frame()
\* { frame_to_render = Some(frame); } }: one pop per step; after the last one the
\* frame chosen (if any) is rendered.
PaintPop(h) ==
    /\ pc[h] = "paint_pop"
    /\ CanRead(h)
    /\ LET popped == IF frame_buffer = <<>> THEN <<>>
                     ELSE FrameTuple(Head(frame_buffer), width, height)
           chosen == IF popped # <<>> THEN popped ELSE frame_to_render
       IN  /\ frame_buffer' = IF frame_buffer = <<>> THEN <<>> ELSE Tail(frame_buffer)
           /\ lastPop' = IF frame_buffer = <<>> THEN lastPop ELSE Head(frame_buffer).id
           /\ IF buffered > 1
              THEN /\ buffered' = buffered - 1
                   /\ frame_to_render' = chosen
                   /\ ret' = NoRet
                   /\ UNCHANGED <<pc, painted>>
              ELSE /\ buffered' = 0
                   /\ frame_to_render' = <<>>
                   /\ Return("paint", IF chosen = <<>> THEN "None" ELSE "Some", chosen)
                   /\ painted' = IF chosen = <<>> THEN painted ELSE chosen[1][1]
                   /\ Goto(h, "idle")
    /\ seekReq' = NoSeek
    /\ UNCHANGED <<lockVars, sizeVars, newVars, source, alive, worker, width, height, speed,
                   frame, upload_frame, frame_buffer_capacity, is_eos,
                   restart_stream, subtitle_text, upload_text, arg, pre, calls,
                   workerVars, pipeVars, teardowns, joined, unconsumed, pubSinceTrue,
                   lastWritten, staleReady, pushedInSeek, eosDrained>>

\* else { frame_to_render = self.video.current_frame_data(); }: the frame read
\* from the slot (if any) is rendered.
PaintSlot(h) ==
    /\ pc[h] = "paint_slot"
    /\ CanRead(h)
    /\ LET chosen == FrameTuple(frame, width, height)
       IN  /\ Return("paint", IF chosen = <<>> THEN "None" ELSE "Some", chosen)
           /\ painted' = IF chosen = <<>> THEN painted ELSE chosen[1][1]
    /\ Goto(h, "idle")
    /\ seekReq' = NoSeek
    /\ UNCHANGED <<lockVars, buffered, frame_to_render, sizeVars, newVars, internalVars, arg,
                   pre, calls, workerVars, pipeVars, histVars>>

\* The steps of a paint of the element that holds handle h.
Painting(h) == PaintLen(h) \/ PaintPop(h) \/ PaintSlot(h)

\* ------------------------------------------------------ Handle: display size
\* width / height as the constructor read them from the caps: s.get::<i32>(..)
NaturalSizes == {-2, 0, 2, 3}
\* display_width_override / display_height_override a caller sets
OverrideOptions == {<<>>, <<1>>, <<3>>}

\* inner.width.max(0) as u32
ClampU32(x) == IF x < 0 THEN 0 ELSE x

\* f32::round() of the quotient n / d of two naturals (d > 0): to the nearest
\* integer, halves away from zero. The f32 quotient of integers this small
\* rounds as the exact quotient does.
Round(n, d) == (2 * n + d) \div (2 * d)

\* A display_size that truncates where the code rounds.
display_size_Truncating(w, h, wo, ho) ==
    LET natural_w == ClampU32(w)
        natural_h == ClampU32(h)
        ar == IF natural_h = 0 THEN <<1, 1>> ELSE <<natural_w, natural_h>>
    IN  CASE wo # <<>> /\ ho # <<>> -> <<wo[1], ho[1]>>
          [] wo # <<>> /\ ho = <<>> ->
               <<wo[1], IF ar[1] = 0 THEN natural_h
                        ELSE (wo[1] * ar[2]) \div ar[1]>>
          [] wo = <<>> /\ ho # <<>> -> <<(ho[1] * ar[1]) \div ar[2], ho[1]>>
          [] OTHER -> <<natural_w, natural_h>>

\* Video::display_size on (inner.width, inner.height, the two overrides). The
\* aspect ratio ar (an f32) is kept as the fraction <<numerator, denominator>>:
\* let ar = if natural_h == 0 { 1.0 } else { natural_w as f32 / natural_h as f32 };
\* (Some(w), None) => (w, if ar == 0.0 { natural_h } else { (w as f32 / ar).round() })
\* (None, Some(h)) => ((h as f32 * ar).round(), h)
display_size(w, h, wo, ho) ==
    LET natural_w == ClampU32(w)
        natural_h == ClampU32(h)
        ar == IF natural_h = 0 THEN <<1, 1>> ELSE <<natural_w, natural_h>>
    IN  CASE wo # <<>> /\ ho # <<>> -> <<wo[1], ho[1]>>
          [] wo # <<>> /\ ho = <<>> ->
               <<wo[1], IF ar[1] = 0 THEN natural_h
                        ELSE Round(wo[1] * ar[2], ar[1])>>
          [] wo = <<>> /\ ho # <<>> -> <<Round(ho[1] * ar[1], ar[2]), ho[1]>>
          [] OTHER -> <<natural_w, natural_h>>

\* set_display_size(width, height): both overrides are stored under the write guard
SetDisplaySize(h, wo, ho) ==
    /\ Begin(h)
    /\ CanWrite(h)
    /\ display_width_override' = wo
    /\ display_height_override' = ho
    /\ Return("set_display_size", "Ok", <<>>)
    /\ seekReq' = NoSeek
    /\ UNCHANGED <<lockVars, paintVars, newVars, internalVars, pc, arg, pre, workerVars,
                   pipeVars, histVars>>

\* display_size(): computed under the read guard
DisplaySize(h) ==
    /\ Begin(h)
    /\ CanRead(h)
    /\ Return("display_size", "Ok",
              display_size(width, height, display_width_override,
                           display_height_override))
    /\ seekReq' = NoSeek
    /\ UNCHANGED <<lockVars, paintVars, sizeVars, newVars, internalVars, pc, arg, pre, workerVars,
                   pipeVars, histVars>>

\* ------------------------------------------------ Handle: size, write()
\* parking_lot's RwLock is fair to writers: self.0.read() is not granted while a
\* writer holds the lock or another thread is waiting in self.0.write(), even to
\* a thread that already holds a read guard.
CanReadFair(h) == CanRead(h) /\ \A g \in Handles \ {h} : pc[g] # "write_wait"

\* size(): (self.read().width, ..): the first read guard, a temporary of the tuple
\* expression, is held until the whole expression has been evaluated
SizeWidth(h) ==
    /\ Begin(h)
    /\ CanReadFair(h)
    /\ Goto(h, "size_height")
    /\ ret' = NoRet
    /\ seekReq' = NoSeek
    /\ UNCHANGED <<lockVars, paintVars, sizeVars, newVars, internalVars, arg, pre, workerVars,
                   pipeVars, histVars>>

\* size(): (.., self.read().height): the second read guard is asked for while
\* the first is held; then both are released and the tuple is returned
SizeHeight(h) ==
    /\ pc[h] = "size_height"
    /\ CanReadFair(h)
    /\ Return("size", "Ok", <<width, height>>)
    /\ Goto(h, "idle")
    /\ seekReq' = NoSeek
    /\ UNCHANGED <<lockVars, paintVars, sizeVars, newVars, internalVars, arg, pre, calls,
                   workerVars, pipeVars, histVars>>

\* set_display_size: let mut inner = self.write(): the caller asks for the write
\* guard and waits for it
WriteWait(h) ==
    /\ Begin(h)
    /\ Goto(h, "write_wait")
    /\ ret' = NoRet
    /\ seekReq' = NoSeek
    /\ UNCHANGED <<lockVars, paintVars, sizeVars, newVars, internalVars, arg, pre, workerVars,
                   pipeVars, histVars>>

\* set_display_size: the write guard is granted once no guard is held; both
\* overrides are stored and the guard is released
WriteGranted(h, wo, ho) ==
    /\ pc[h] = "write_wait"
    /\ CanWrite(h)
    /\ display_width_override' = wo
    /\ display_height_override' = ho
    /\ Return("set_display_size", "Ok", <<>>)
    /\ Goto(h, "idle")
    /\ seekReq' = NoSeek
    /\ UNCHANGED <<lockVars, paintVars, newVars, internalVars, arg, pre, calls, workerVars,
                   pipeVars, histVars>>

\* The locking steps of size() and of a call that takes the write guard.
Locking(h) ==
    \/ SizeWidth(h) \/ SizeHeight(h)
    \/ WriteWait(h)
    \/ \E wo \in OverrideOptions, ho \in OverrideOptions : WriteGranted(h, wo, ho)

\* ------------------------------------------------------- the inner mutexes
\* The steps below take the guards of the Frame Slot, the ring buffer and the
\* subtitle slot one lock() at a time, where a guard is held over more than one
\* statement. A guard that is a temporary of one statement is taken and released
\* within the step that makes the access (MutexFree is that step's guard).
Mutexes == {"frame", "frame_buffer", "subtitle_text"}

\* lock() on m returns at once: no thread holds its guard
MutexFree(m) == \A t \in Threads : m \notin held[t]

\* m.lock() by thread t / the drop of the guard
Lock(t, m)   == MutexFree(m) /\ held' = [held EXCEPT ![t] = @ \cup {m}]
Unlock(t, m) == held' = [held EXCEPT ![t] = @ \ {m}]

\* { let mut frame_guard = frame_ref.lock();
MSlotLock ==
    /\ wpc = "slot"
    /\ Lock(0, "frame")
    /\ wpc' = "slot_locked"
    /\ ret' = NoRet
    /\ seekReq' = NoSeek
    /\ UNCHANGED <<paintVars, sizeVars, newVars, internalVars, handleVars, wSample,
                   wCap, wPlaying, wText, clear_subtitles_at, pipeVars, histVars>>

\* *frame_guard = Frame(sample); }
MSlotStore ==
    /\ wpc = "slot_locked"
    /\ frame' = wSample
    /\ lastWritten' = wSample
    /\ Unlock(0, "frame")
    /\ wpc' = "capload"
    /\ ret' = NoRet
    /\ seekReq' = NoSeek
    /\ UNCHANGED <<lastPop, eosDrained, paintVars, sizeVars, newVars, source, alive,
                   worker, width, height, speed, upload_frame, frame_buffer,
                   frame_buffer_capacity, is_eos, restart_stream, subtitle_text,
                   upload_text, handleVars, wSample, wCap, wPlaying, wText,
                   clear_subtitles_at, pipeVars, teardowns, joined, unconsumed,
                   pubSinceTrue, staleReady, pushedInSeek>>

\* A clone of the slot's sample that keeps the slot's guard: let g = frame_ref.lock();
MPushClone_KeepGuard ==
    /\ wpc = "push"
    /\ Lock(0, "frame")
    /\ wpc' = "push_lock"
    /\ ret' = NoRet
    /\ seekReq' = NoSeek
    /\ UNCHANGED <<paintVars, sizeVars, newVars, internalVars, handleVars, wSample,
                   wCap, wPlaying, wText, clear_subtitles_at, pipeVars, histVars>>

\* let sample_for_buffer = frame_ref.lock().0.clone(): the guard is a temporary of
\* the statement (the clone is the sample in the slot, which only the worker writes)
MPushClone ==
    /\ wpc = "push"
    /\ MutexFree("frame")
    /\ wpc' = "push_lock"
    /\ ret' = NoRet
    /\ seekReq' = NoSeek
    /\ UNCHANGED <<lockVars, paintVars, sizeVars, newVars, internalVars, handleVars,
                   wSample, wCap, wPlaying, wText, clear_subtitles_at, pipeVars,
                   histVars>>

\* let mut buf = frame_buffer_ref.lock();
MPushLock ==
    /\ wpc = "push_lock"
    /\ Lock(0, "frame_buffer")
    /\ wpc' = "push_locked"
    /\ ret' = NoRet
    /\ seekReq' = NoSeek
    /\ UNCHANGED <<paintVars, sizeVars, newVars, internalVars, handleVars, wSample,
                   wCap, wPlaying, wText, clear_subtitles_at, pipeVars, histVars>>

\* buf.push_back(Frame(sample_for_buffer)); while buf.len() > capacity
\* { buf.pop_front(); } }
MPushStore ==
    /\ wpc = "push_locked"
    /\ frame_buffer' = TrimFront(Append(frame_buffer, frame), wCap)
    /\ pushedInSeek' = \E h \in Handles : pc[h] = "seek_flag"
    /\ Unlock(0, "frame_buffer")
    /\ wpc' = "ready"
    /\ ret' = NoRet
    /\ seekReq' = NoSeek
    /\ UNCHANGED <<lastPop, eosDrained, paintVars, sizeVars, newVars, source, alive,
                   worker, width, height, speed, frame, upload_frame,
                   frame_buffer_capacity, is_eos, restart_stream, subtitle_text,
                   upload_text, handleVars, wSample, wCap, wPlaying, wText,
                   clear_subtitles_at, pipeVars, teardowns, joined, unconsumed,
                   pubSinceTrue, lastWritten, staleReady>>

\* The worker's loop with the guards of its mutexes.
WorkerMutex ==
    \/ WLoop \/ WDrain \/ WEosCheck \/ WState \/ WPull
    \/ MSlotLock \/ MSlotStore
    \/ WCapLoad
    \/ MPushClone \/ MPushLock \/ MPushStore
    \/ WReady
    \/ (ClearDue => MutexFree("subtitle_text")) /\ WSubClear
    \/ WSubClearFlag \/ WTextPull
    \/ MutexFree("subtitle_text") /\ WSubSet
    \/ WSubSetFlag

\* current_frame_data: let inner = self.read();
MCurrentRead(h) ==
    /\ Begin(h)
    /\ CanRead(h)
    /\ Goto(h, "current_lock")
    /\ ret' = NoRet
    /\ seekReq' = NoSeek
    /\ UNCHANGED <<lockVars, paintVars, sizeVars, newVars, internalVars, arg, pre,
                   workerVars, pipeVars, histVars>>

\* if let Some(readable) = inner.frame.lock().readable() {: the guard is held over
\* the body of the if let
MCurrentLock(h) ==
    /\ pc[h] = "current_lock"
    /\ Lock(h, "frame")
    /\ Goto(h, "current_locked")
    /\ ret' = NoRet
    /\ seekReq' = NoSeek
    /\ UNCHANGED <<paintVars, sizeVars, newVars, internalVars, arg, pre, calls,
                   workerVars, pipeVars, histVars>>

\* let data = readable.as_slice().to_vec(); if !data.is_empty() { return Some(..) } } None
MCurrentData(h) ==
    /\ pc[h] = "current_locked"
    /\ Return("current_frame_data",
              IF FrameTuple(frame, width, height) = <<>> THEN "None" ELSE "Some",
              FrameTuple(frame, width, height))
    /\ Unlock(h, "frame")
    /\ Goto(h, "idle")
    /\ seekReq' = NoSeek
    /\ UNCHANGED <<paintVars, sizeVars, newVars, internalVars, arg, pre, calls,
                   workerVars, pipeVars, histVars>>

\* set_frame_buffer_capacity, capacity > 0: let mut buf = inner.frame_buffer.lock();
MCapLock(h) ==
    /\ pc[h] = "cap_trim"
    /\ arg[h].capacity # 0
    /\ Lock(h, "frame_buffer")
    /\ Goto(h, "cap_locked")
    /\ ret' = NoRet
    /\ seekReq' = NoSeek
    /\ UNCHANGED <<paintVars, sizeVars, newVars, internalVars, arg, pre, calls,
                   workerVars, pipeVars, histVars>>

\* while buf.len() > capacity { buf.pop_front(); } }
MCapTrim(h) ==
    /\ pc[h] = "cap_locked"
    /\ frame_buffer' = TrimFront(frame_buffer, arg[h].capacity)
    /\ Unlock(h, "frame_buffer")
    /\ Return("set_frame_buffer_capacity", "Ok", <<>>)
    /\ arg' = [arg EXCEPT ![h] = None]
    /\ Goto(h, "idle")
    /\ seekReq' = NoSeek
    /\ UNCHANGED <<paintVars, sizeVars, newVars, source, alive, worker, width,
                   height, speed, frame, upload_frame, frame_buffer_capacity, is_eos,
                   restart_stream, subtitle_text, upload_text, pre, calls,
                   workerVars, pipeVars, histVars>>

\* The calls of a handle that take an inner mutex, with their guards: seek,
\* current_frame_data, set_frame_buffer_capacity, pop_buffered_frame.
HandleMutex(h) ==
    \/ \E ok \in BOOLEAN : SeekCall(h, ok)
    \/ MutexFree("subtitle_text") /\ SeekSub(h)
    \/ SeekSubFlag(h)
    \/ MutexFree("frame_buffer") /\ SeekBuf(h)
    \/ SeekFlag(h)
    \/ MCurrentRead(h) \/ MCurrentLock(h) \/ MCurrentData(h)
    \/ \E capacity \in 0..MaxCap : CapStore(h, capacity)
    \/ arg[h].capacity = 0 /\ MutexFree("frame_buffer") /\ CapTrim(h)
    \/ MCapLock(h) \/ MCapTrim(h)
    \/ PopSize(h)
    \/ MutexFree("frame_buffer") /\ PopPop(h)

\* ---------------------------------------------------------------- pipeline
\* The pipeline posts an end-of-stream or an error message on its bus.
PostBus(msg) ==
    /\ events < MaxEvents
    /\ source # "Null"
    /\ bus' = Append(bus, msg)
    /\ events' = events + 1
    /\ ret' = NoRet
    /\ seekReq' = NoSeek
    /\ UNCHANGED <<lockVars, paintVars, sizeVars, newVars, internalVars, handleVars, workerVars, delivered, gen, histVars>>

\* ------------------------------------------------------------ construction
\* VideoOptions: an Option is the empty sequence (None) or <<v>> (Some(v)).
CapacityOptions == {<<>>, <<0>>, <<MaxCap>>}
LoopingOptions  == {<<>>, <<TRUE>>}
SpeedOptions    == {<<>>, <<1>>} \cup {<<r>> : r \in Rates}

\* Option::unwrap_or_default(): default is Default::default() of the type
\* (0 for usize, 0.0 for f64, false for bool)
UnwrapOrDefault(o, default) == IF o = <<>> THEN default ELSE o[1]

\* The framerate fractions <<numer, denom>> the caps may carry.
Fractions == {<<2, 1>>, <<0, 1>>, <<-2, 1>>, <<1, 0>>, <<0, 0>>}

\* What the negotiated caps may lack (each gives Error::Caps).
CapsFields == {"caps", "structure", "width", "height", "framerate", "vinfo"}

\* A framerate check without the test against f64::EPSILON.
FramerateRejected_NoEpsilon(numer, denom) ==
    \/ numer = 0 /\ denom = 0
    \/ numer # 0 /\ denom = 0
    \/ denom # 0 /\ ((numer < 0 /\ denom > 0) \/ (numer > 0 /\ denom < 0))

\* let framerate = numer as f64 / denom as f64;
\* framerate.is_nan() || framerate.is_infinite() || framerate < 0.0
\*     || framerate.abs() < f64::EPSILON
\* 0/0 is NaN, n/0 is infinite; the quotient of two i32 is below EPSILON in
\* absolute value only when the numerator is 0.
FramerateRejected(numer, denom) ==
    \/ numer = 0 /\ denom = 0
    \/ numer # 0 /\ denom = 0
    \/ denom # 0 /\ ((numer < 0 /\ denom > 0) \/ (numer > 0 /\ denom < 0))
    \/ denom # 0 /\ numer = 0

\* cleanup!(pipeline.set_state(gst::State::Playing))?
NewStart(ok) ==
    /\ npc = "start"
    /\ IF ok
       THEN source' = "Playing" /\ npc' = "wait" /\ ret' = NoRet
       ELSE source' = "Null" /\ npc' = "failed" /\ Return("new", "ErrStateChange", <<>>)
    /\ seekReq' = NoSeek
    /\ UNCHANGED <<lockVars, paintVars, sizeVars, alive, worker, width, height, speed, frame, upload_frame,
                   frame_buffer, frame_buffer_capacity, is_eos, restart_stream,
                   subtitle_text, upload_text, handleVars, workerVars, pipeVars,
                   histVars, options, looping>>

\* cleanup!(pipeline.state(gst::ClockTime::from_seconds(5)).0)?
NewWait(ok) ==
    /\ npc = "wait"
    /\ IF ok
       THEN npc' = "caps" /\ ret' = NoRet /\ UNCHANGED source
       ELSE source' = "Null" /\ npc' = "failed" /\ Return("new", "ErrStateChange", <<>>)
    /\ seekReq' = NoSeek
    /\ UNCHANGED <<lockVars, paintVars, sizeVars, alive, worker, width, height, speed, frame, upload_frame,
                   frame_buffer, frame_buffer_capacity, is_eos, restart_stream,
                   subtitle_text, upload_text, handleVars, workerVars, pipeVars,
                   histVars, options, looping>>

\* The caps, their structure, width, height, framerate and video info, each under
\* cleanup!, then the framerate check:
\* { let _ = pipeline.set_state(gst::State::Null); return Err(Error::Framerate(framerate)); }
NewCaps(missing, fr) ==
    /\ npc = "caps"
    /\ IF missing # "none"
       THEN /\ source' = "Null" /\ npc' = "failed"
            /\ Return("new", "ErrCaps", <<>>)
            /\ UNCHANGED <<width, height>>
       ELSE IF FramerateRejected(fr[1], fr[2])
       THEN /\ source' = "Null" /\ npc' = "failed"
            /\ Return("new", "ErrFramerate", fr)
            /\ UNCHANGED <<width, height>>
       ELSE /\ width' \in Widths /\ height' \in Heights
            /\ npc' = "spawn" /\ ret' = NoRet
            /\ UNCHANGED source
    /\ seekReq' = NoSeek
    /\ UNCHANGED <<lockVars, paintVars, sizeVars, alive, worker, speed, frame, upload_frame,
                   frame_buffer, frame_buffer_capacity, is_eos, restart_stream,
                   subtitle_text, upload_text, handleVars, workerVars, pipeVars,
                   histVars, options, looping>>

\* The shared cells (frame, upload_frame, frame_buffer, frame_buffer_capacity from
\* options.frame_buffer_capacity.unwrap_or_default(), alive = true, subtitle_text,
\* upload_text, is_eos), then std::thread::spawn of the worker.
NewSpawn ==
    /\ npc = "spawn"
    /\ frame' = EmptyFrame
    /\ upload_frame' = FALSE
    /\ frame_buffer' = <<>>
    /\ frame_buffer_capacity' = UnwrapOrDefault(options.frame_buffer_capacity, 0)
    /\ alive' = TRUE
    /\ subtitle_text' = NoCue
    /\ upload_text' = FALSE
    /\ is_eos' = FALSE
    /\ wpc' = "loop"
    /\ clear_subtitles_at' = NoTime
    /\ npc' = "speed"
    /\ ret' = NoRet
    /\ seekReq' = NoSeek
    /\ UNCHANGED <<lockVars, paintVars, sizeVars, source, worker, width, height, speed, restart_stream, handleVars,
                   wSample, wCap, wPlaying, wText, pipeVars, histVars, options,
                   looping>>

\* A construction whose initial-speed step fails with a plain `?`, without cleanup!.
NewSpeed_NoCleanup(pos, ok) ==
    /\ npc = "speed"
    /\ UnwrapOrDefault(options.speed, 0) # 1
    /\ ~pos \/ ~ok
    /\ npc' = "failed"
    /\ seekReq' = IF pos THEN RateSeek(UnwrapOrDefault(options.speed, 0), Position, FALSE)
                  ELSE NoSeek
    /\ Return("new", IF pos THEN "Err" ELSE "ErrCaps", <<>>)
    /\ UNCHANGED <<lockVars, paintVars, sizeVars, internalVars, handleVars, workerVars, pipeVars, histVars,
                   options, looping>>

\* let initial_speed = options.speed.unwrap_or_default();
\* if (initial_speed - 1.0).abs() > f64::EPSILON { query_position under cleanup!
\* (pos: it answers), the rate-change seek under cleanup! (ok: accepted) }
\* Ok(Video(Arc::new(RwLock::new(Internal { .. speed: initial_speed, ..
\* looping: options.looping.unwrap_or_default(), restart_stream: false, .. }))))
NewSpeed(pos, ok) ==
    /\ npc = "speed"
    /\ LET initial_speed == UnwrapOrDefault(options.speed, 0) IN
       IF initial_speed # 1 /\ ~pos
       THEN /\ source' = "Null" /\ npc' = "failed"
            /\ seekReq' = NoSeek
            /\ Return("new", "ErrCaps", <<>>)
            /\ UNCHANGED <<worker, speed, restart_stream, looping, pc>>
       ELSE IF initial_speed # 1 /\ ~ok
       THEN /\ source' = "Null" /\ npc' = "failed"
            /\ seekReq' = RateSeek(initial_speed, Position, FALSE)
            /\ Return("new", "Err", <<>>)
            /\ UNCHANGED <<worker, speed, restart_stream, looping, pc>>
       ELSE /\ seekReq' = IF initial_speed # 1
                          THEN RateSeek(initial_speed, Position, TRUE) ELSE NoSeek
            /\ worker' = "Some"
            /\ speed' = initial_speed
            /\ looping' = UnwrapOrDefault(options.looping, FALSE)
            /\ restart_stream' = FALSE
            /\ pc' = [pc EXCEPT ![1] = "idle"]
            /\ npc' = "done"
            /\ Return("new", "Ok", <<>>)
            /\ UNCHANGED source
    /\ UNCHANGED <<lockVars, paintVars, sizeVars, alive, width, height, frame, upload_frame, frame_buffer,
                   frame_buffer_capacity, is_eos, subtitle_text, upload_text,
                   arg, pre, calls, workerVars, pipeVars, histVars, options>>

ConstructNext ==
    \/ \E ok \in BOOLEAN : NewStart(ok)
    \/ \E ok \in BOOLEAN : NewWait(ok)
    \/ \E missing \in CapsFields \cup {"none"}, fr \in Fractions : NewCaps(missing, fr)
    \/ NewSpawn
    \/ \E pos \in BOOLEAN, ok \in BOOLEAN : NewSpeed(pos, ok)

\* The state in which from_gst_pipeline_with_options is entered: the pipeline
\* has not been started, no shared cell, worker or handle exists yet.
InitNew ==
    /\ source = "Null"
    /\ alive = FALSE
    /\ worker = "None"
    /\ width = 0
    /\ height = 0
    /\ speed = 0
    /\ frame = EmptyFrame
    /\ upload_frame = FALSE
    /\ frame_buffer = <<>>
    /\ frame_buffer_capacity = 0
    /\ is_eos = FALSE
    /\ restart_stream = FALSE
    /\ subtitle_text = NoCue
    /\ upload_text = FALSE
    /\ pc = [h \in Handles |-> "unborn"]
    /\ arg = [h \in Handles |-> None]
    /\ pre = [h \in Handles |-> FALSE]
    /\ ret = NoRet
    /\ seekReq = NoSeek
    /\ calls = 0
    /\ wpc = "unspawned"
    /\ wSample = EmptyFrame
    /\ wCap = 0
    /\ wPlaying = FALSE
    /\ wText = NoCue
    /\ clear_subtitles_at = NoTime
    /\ bus = <<>>
    /\ events = 0
    /\ delivered = 0
    /\ gen = 0
    /\ teardowns = 0
    /\ joined = FALSE
    /\ unconsumed = 0
    /\ pubSinceTrue = FALSE
    /\ lastWritten = EmptyFrame
    /\ staleReady = FALSE
    /\ pushedInSeek = FALSE
    /\ eosDrained = FALSE
    /\ lastPop = 0
    /\ display_width_override = <<>>
    /\ display_height_override = <<>>
    /\ buffered = 0
    /\ frame_to_render = <<>>
    /\ painted = 0
    /\ held = [t \in Threads |-> {}]
    /\ npc = "start"
    /\ options \in [frame_buffer_capacity : CapacityOptions,
                    looping : LoopingOptions, speed : SpeedOptions]
    /\ looping = FALSE

\* -------------------------------------------------------------------- Next
\* The lifecycle of the handles: clone and drop.
Lifecycle(h) ==
    \/ Clone(h)
    \/ DropCheck(h) \/ DropNull(h) \/ DropAlive(h) \/ DropTake(h)
    \/ DropJoin(h) \/ DropDec(h)

\* The operations of a handle.
Operation(h) ==
    \/ \E ok \in BOOLEAN : SeekCall(h, ok)
    \/ SeekSub(h) \/ SeekSubFlag(h) \/ SeekBuf(h) \/ SeekFlag(h)
    \/ RestartEos(h) \/ RestartPlay(h) \/ RestartFlag(h)
    \/ \E ok \in BOOLEAN : RestartSeek(h, ok)
    \/ \E paused \in BOOLEAN : PauseState(h, paused)
    \/ PauseFlag(h)
    \/ \E rate \in Rates, pos \in BOOLEAN, ok \in BOOLEAN : SetSpeed(h, rate, pos, ok)
    \/ TakeFrameReady(h)
    \/ CurrentFrameData(h)
    \/ \E capacity \in 0..MaxCap : CapStore(h, capacity)
    \/ CapTrim(h)
    \/ PopSize(h) \/ PopPop(h)

\* The display-size operations of a handle.
Sizing(h) ==
    \/ \E wo \in OverrideOptions, ho \in OverrideOptions : SetDisplaySize(h, wo, ho)
    \/ DisplaySize(h)

PipelineNext ==
    \E msg \in {"Eos", "Error"} : PostBus(msg)

Next ==
    \/ WorkerNext
    \/ WPanic
    \/ PipelineNext
    \/ \E h \in Handles :
         \/ Lifecycle(h) \/ Operation(h) \/ Abort(h) \/ Sizing(h)
         \/ Painting(h) \/ Locking(h)

Spec == Init /\ [][Next]_vars

\* The player in use: the handles are cloned and operated, none is dropped.
NextOps ==
    \/ WorkerNext
    \/ PipelineNext
    \/ \E h \in Handles : Clone(h) \/ Operation(h)

SpecOps == Init /\ [][NextOps]_vars

\* The handles' lifecycle: they are cloned and dropped while the worker runs.
NextLife ==
    \/ WorkerNext
    \/ PipelineNext
    \/ \E h \in Handles : Lifecycle(h)

SpecLife == Init /\ [][NextLife]_vars

\* Construction: from_gst_pipeline_with_options runs, and the worker once spawned.
NextNew ==
    \/ ConstructNext
    \/ WorkerNext
    \/ PipelineNext

SpecNew == InitNew /\ [][NextNew]_vars

\* Playback control around end-of-stream: one handle pauses, resumes, seeks and
\* restarts while the worker runs.
NextEos ==
    \/ WorkerNext
    \/ PipelineNext
    \/ \E h \in Handles :
         \/ \E ok \in BOOLEAN : SeekCall(h, ok)
         \/ SeekSub(h) \/ SeekSubFlag(h) \/ SeekBuf(h) \/ SeekFlag(h)
         \/ RestartEos(h) \/ RestartPlay(h) \/ RestartFlag(h)
         \/ \E ok \in BOOLEAN : RestartSeek(h, ok)
         \/ \E paused \in BOOLEAN : PauseState(h, paused)
         \/ PauseFlag(h)

SpecEos == Init /\ [][NextEos]_vars

\* The ring buffer in use. InitBuf is the state in which the constructor returns
\* Ok when it was given VideoOptions::default(): as Init, with the default
\* capacity.
InitBuf ==
    /\ source = "Playing"
    /\ alive = TRUE
    /\ worker = "Some"
    /\ width \in Widths
    /\ height \in Heights
    /\ speed = 1
    /\ frame = EmptyFrame
    /\ upload_frame = FALSE
    /\ frame_buffer = <<>>
    /\ frame_buffer_capacity = DefaultCapacity
    /\ is_eos = FALSE
    /\ restart_stream = FALSE
    /\ subtitle_text = NoCue
    /\ upload_text = FALSE
    /\ pc = [h \in Handles |-> IF h = 1 THEN "idle" ELSE "unborn"]
    /\ arg = [h \in Handles |-> None]
    /\ pre = [h \in Handles |-> FALSE]
    /\ ret = [op |-> "new", res |-> "Ok", data |-> <<>>]
    /\ seekReq = NoSeek
    /\ calls = 0
    /\ wpc = "loop"
    /\ wSample = EmptyFrame
    /\ wCap = 0
    /\ wPlaying = FALSE
    /\ wText = NoCue
    /\ clear_subtitles_at = NoTime
    /\ bus = <<>>
    /\ events = 0
    /\ delivered = 0
    /\ gen = 0
    /\ teardowns = 0
    /\ joined = FALSE
    /\ unconsumed = 0
    /\ pubSinceTrue = FALSE
    /\ lastWritten = EmptyFrame
    /\ staleReady = FALSE
    /\ pushedInSeek = FALSE
    /\ eosDrained = FALSE
    /\ lastPop = 0
    /\ npc = "done"
    /\ options = [frame_buffer_capacity |-> <<DefaultCapacity>>,
                  looping |-> <<FALSE>>, speed |-> <<1>>]
    /\ looping = FALSE
    /\ display_width_override = <<>>
    /\ display_height_override = <<>>
    /\ buffered = 0
    /\ frame_to_render = <<>>
    /\ painted = 0
    /\ held = [t \in Threads |-> {}]

\* One handle sets the capacity (0 up to the default) and pops frames while the
\* worker publishes.
NextBuf ==
    \/ WorkerNext
    \/ PipelineNext
    \/ \E h \in Handles :
         \/ \E capacity \in 0..DefaultCapacity : CapStore(h, capacity)
         \/ CapTrim(h)
         \/ PopSize(h) \/ PopPop(h)

SpecBuf == InitBuf /\ [][NextBuf]_vars

\* Playback control when the pipeline may reject a state change.
NextAbort ==
    \/ NextEos
    \/ \E h \in Handles : Abort(h)

SpecAbort == Init /\ [][NextAbort]_vars

\* The display size. InitSize is InitBuf for a stream of any natural size the
\* caps may carry as i32.
InitSize ==
    /\ source = "Playing"
    /\ alive = TRUE
    /\ worker = "Some"
    /\ width \in NaturalSizes
    /\ height \in NaturalSizes
    /\ speed = 1
    /\ frame = EmptyFrame
    /\ upload_frame = FALSE
    /\ frame_buffer = <<>>
    /\ frame_buffer_capacity = DefaultCapacity
    /\ is_eos = FALSE
    /\ restart_stream = FALSE
    /\ subtitle_text = NoCue
    /\ upload_text = FALSE
    /\ pc = [h \in Handles |-> IF h = 1 THEN "idle" ELSE "unborn"]
    /\ arg = [h \in Handles |-> None]
    /\ pre = [h \in Handles |-> FALSE]
    /\ ret = [op |-> "new", res |-> "Ok", data |-> <<>>]
    /\ seekReq = NoSeek
    /\ calls = 0
    /\ wpc = "loop"
    /\ wSample = EmptyFrame
    /\ wCap = 0
    /\ wPlaying = FALSE
    /\ wText = NoCue
    /\ clear_subtitles_at = NoTime
    /\ bus = <<>>
    /\ events = 0
    /\ delivered = 0
    /\ gen = 0
    /\ teardowns = 0
    /\ joined = FALSE
    /\ unconsumed = 0
    /\ pubSinceTrue = FALSE
    /\ lastWritten = EmptyFrame
    /\ staleReady = FALSE
    /\ pushedInSeek = FALSE
    /\ eosDrained = FALSE
    /\ lastPop = 0
    /\ npc = "done"
    /\ options = [frame_buffer_capacity |-> <<DefaultCapacity>>,
                  looping |-> <<FALSE>>, speed |-> <<1>>]
    /\ looping = FALSE
    /\ display_width_override = <<>>
    /\ display_height_override = <<>>
    /\ buffered = 0
    /\ frame_to_render = <<>>
    /\ painted = 0
    /\ held = [t \in Threads |-> {}]

\* The handles are cloned; their holders set the overrides and ask the size.
NextSize ==
    \E h \in Handles : Clone(h) \/ Sizing(h)

SpecSize == InitSize /\ [][NextSize]_vars

\* The element paints, from the state the constructor returns with
\* VideoOptions::default(), while the worker publishes; no seek is made.
NextPaint ==
    \/ WorkerNext
    \/ PipelineNext
    \/ \E h \in Handles : Painting(h)

SpecPaint == InitBuf /\ [][NextPaint]_vars

\* Holders of two handles on two threads: one asks the size, the other sets the
\* display size.
NextLock ==
    \/ WorkerNext
    \/ PipelineNext
    \/ \E h \in Handles : Clone(h) \/ Locking(h)

SpecLock == Init /\ [][NextLock]_vars

\* Every thread that is inside a call keeps running, and so does the worker.
FairLock ==
    SpecLock /\ WF_vars(WorkerNext) /\ \A h \in Handles : WF_vars(Locking(h))

\* Construction, with a worker thread that keeps running once it is spawned.
FairNew == SpecNew /\ WF_vars(WorkerNext)

\* The worker thread keeps running; the holder of the handle may stop calling.
FairEos == SpecEos /\ WF_vars(WorkerNext)

\* The worker is a thread of its own, which the scheduler keeps running.
FairLife == SpecLife /\ WF_vars(WorkerNext)

\* The steps of the teardown branch of drop, once entered.
Teardown(h) ==
    DropNull(h) \/ DropAlive(h) \/ DropTake(h) \/ DropJoin(h) \/ DropDec(h)

\* The handles' lifecycle when the worker thread may panic.
NextPanic ==
    \/ NextLife
    \/ WPanic

SpecPanic == Init /\ [][NextPanic]_vars

\* The worker keeps running until it ends, and so does a thread that is in drop.
FairPanic ==
    SpecPanic /\ WF_vars(WorkerNext) /\ WF_vars(\E h \in Handles : Teardown(h))

\* The player with the guards of its inner mutexes: the handles are cloned,
\* operated and dropped while the worker runs.
NextMutex ==
    \/ WorkerMutex
    \/ \E h \in Handles : Lifecycle(h) \/ HandleMutex(h)

SpecMutex == Init /\ [][NextMutex]_vars

\* Thread t is inside the worker's loop / inside a call or drop of its handle.
Running(t) ==
    IF t = 0 THEN wpc \notin {"unspawned", "stopped"}
             ELSE pc[t] \notin {"unborn", "idle", "dropped"}

\* The next step of thread t.
Step(t) == IF t = 0 THEN WorkerMutex ELSE Teardown(t) \/ HandleMutex(t)

\* ================================================================== claims

\* C1 -- at every observation point (no set_frame_buffer_capacity call is between
\* its store and its trim) the ring buffer holds at most frame_buffer_capacity
\* frames; in particular it is empty whenever the capacity is 0.
C1_BufferWithinCapacity ==
    (\A h \in Handles : pc[h] # "cap_trim")
        => Len(frame_buffer) <= frame_buffer_capacity

\* C2 -- once every clone has been dropped, teardown has been performed exactly
\* once: the pipeline is Null, alive is false and the worker has been joined.
C2_TeardownOnceAllDropped ==
    StrongCount = 0
        => teardowns = 1 /\ source = "Null" /\ ~alive /\ worker = "None" /\ joined

\* C3 -- no step taken while two or more clones are alive (the steps of a clone's
\* drop included, up to the one that removes it) performs teardown: the pipeline
\* is not set to Null, alive and the worker's join handle are unchanged, and the
\* worker does not stop.
C3_NoTeardownWhileShared ==
    [][StrongCount >= 2
         => /\ teardowns' = teardowns
            /\ alive' = alive
            /\ worker' = worker
            /\ (source' = "Null" <=> source = "Null")
            /\ (wpc' = "stopped" => wpc = "stopped")]_vars

\* a clone has been dropped while the other lives on: no teardown, worker running
C3_Witness ==
    \E h, g \in Handles :
        /\ pc[h] = "dropped" /\ pc[g] = "idle"
        /\ teardowns = 0 /\ alive /\ worker = "Some" /\ source = "Playing"
        /\ wpc = "ready"

\* C4 -- once alive is false the worker thread eventually reaches Stopped.
C4_WorkerStops == (~alive) ~> (wpc = "stopped")

\* teardown cleared alive while the worker idled at end-of-stream, and joined it
C4_Witness == ~alive /\ is_eos /\ wpc = "stopped" /\ joined

\* C5 (as claimed) -- a seek that began with a non-empty buffer and
\* frame_ready = true returns Ok with the buffer empty and frame_ready false.
C5_SeekLeavesClean ==
    [][\A h \in Handles :
         (pc[h] = "seek_flag" /\ pc'[h] = "idle" /\ pre[h])
             => (frame_buffer' = <<>> /\ upload_frame' = FALSE)]_vars

\* C5 (amended) -- a seek that began with a non-empty buffer and
\* frame_ready = true returns Ok with frame_ready false, and with the buffer
\* empty unless the worker pushed a frame after the seek had cleared it.
C5_SeekClears ==
    [][\A h \in Handles :
         (pc[h] = "seek_flag" /\ pc'[h] = "idle" /\ pre[h])
             => /\ upload_frame' = FALSE
                /\ ~pushedInSeek => frame_buffer' = <<>>]_vars

\* a seek that began with frames buffered and frame_ready set has cleared the
\* buffer and is about to store frame_ready = false and return
C5_Witness ==
    \E h \in Handles :
        /\ pc[h] = "seek_flag" /\ arg[h].op = "seek" /\ pre[h]
        /\ ~pushedInSeek /\ frame_buffer = <<>> /\ upload_frame

\* C6 -- no frame pulled before a flush seek is in the ring buffer after that
\* seek has cleared it, and none has set frame_ready after that seek has cleared it.
C6_NoStaleFrameAfterSeek ==
    /\ \A i \in 1..Len(frame_buffer) : frame_buffer[i].gen >= BufClearGen
    /\ ~staleReady

\* C7 -- take_frame_ready() returns true at most once per publish: the calls that
\* returned true never outnumber the publishes, and a call returns true only if
\* the worker has published since the last call that did.
C7_TakeOncePerPublish ==
    [][/\ unconsumed' >= 0
       /\ (ret'.op = "take_frame_ready" /\ ret'.res = "true") => pubSinceTrue]_vars

\* after one publish, a first take_frame_ready() returned true and a second false
C7_Witness ==
    /\ ret.op = "take_frame_ready" /\ ret.res = "false"
    /\ calls = 2 /\ unconsumed = 0 /\ delivered = 1 /\ wpc = "textpull"

\* C8 -- current_frame_data() returns the bytes of the frame the worker last
\* wrote to the slot with the negotiated width and height, and changes neither
\* the slot, frame_ready nor the ring buffer.
C8_CurrentFrameIsPublished ==
    [][ret'.op = "current_frame_data"
         => /\ frame' = frame
            /\ upload_frame' = upload_frame
            /\ frame_buffer' = frame_buffer
            /\ lastWritten # EmptyFrame
                 => /\ ret'.res = "Some"
                    /\ ret'.data = <<Readable(lastWritten), width, height>>]_vars

\* a second current_frame_data() in a row returned the published frame
C8_Witness ==
    /\ ret.op = "current_frame_data" /\ ret.res = "Some"
    /\ ret.data = <<Readable(lastWritten), width, height>>
    /\ calls = 2 /\ lastWritten # EmptyFrame

\* C9 -- the slot holds the empty sentinel or the frame the worker wrote last,
\* whole; once a frame is in it no step puts the empty sentinel back.
C9_SlotNeverReset ==
    [][/\ frame' = lastWritten'
       /\ frame' # frame => frame' # EmptyFrame /\ frame' = wSample]_vars

\* after set_paused(true), current_frame_data() returned the last frame
C9_Witness ==
    /\ source = "Paused"
    /\ ret.op = "current_frame_data" /\ ret.res = "Some"
    /\ ret.data[1] = Readable(frame)

\* C10 -- set_speed, when the position query does not answer, returns
\* Error::Caps, asks no seek of the pipeline and leaves speed unchanged; when the
\* pipeline rejects the seek it leaves speed unchanged.
C10_SetSpeedFailureKeepsSpeed ==
    [][\A h \in Handles, rate \in Rates, ok \in BOOLEAN :
         /\ SetSpeed(h, rate, FALSE, ok)
              => ret'.res = "ErrCaps" /\ seekReq' = NoSeek /\ speed' = speed
         /\ SetSpeed(h, rate, TRUE, FALSE)
              => ret'.res = "Err" /\ speed' = speed]_vars

\* set_speed returned Error::Caps after an earlier set_speed had succeeded
C10_Witness ==
    /\ ret.op = "set_speed" /\ ret.res = "ErrCaps"
    /\ seekReq = NoSeek /\ speed = 2 /\ calls = 2

\* C11 -- set_speed(rate), when the position is known, asks a flush seek at that
\* rate whose segment runs from the current position to the stream end if
\* rate > 0 and from the stream start to the current position if rate <= 0; when
\* the pipeline accepts it the stored speed is rate.
C11_SetSpeedSegment ==
    [][\A h \in Handles, rate \in Rates, ok \in BOOLEAN :
         SetSpeed(h, rate, TRUE, ok)
           => /\ seekReq'.rate = rate
              /\ rate > 0 => /\ seekReq'.start = SeekSet(Position)
                             /\ seekReq'.stop = SeekEnd(0)
              /\ rate <= 0 => /\ seekReq'.start = SeekSet(0)
                              /\ seekReq'.stop = SeekSet(Position)
              /\ ok => speed' = rate /\ ret'.res = "Ok"]_vars

\* set_speed(-1) succeeded after a frame was delivered: reverse segment, speed -1
C11_Witness ==
    /\ ret.op = "set_speed" /\ ret.res = "Ok" /\ speed = -1
    /\ delivered = 1
    /\ seekReq = SeekReq(-1, SeekSet(0), SeekSet(1), TRUE)

\* C12 -- no seek asked of the pipeline carries rate 0, and the stored speed is
\* never 0.
C12_NoZeroRate ==
    /\ speed # 0
    /\ seekReq # NoSeek => seekReq.rate # 0

\* C13 -- when construction returns Ok, an option that was None has its documented
\* default: frame_buffer_capacity is 3, looping is false, and speed is 1.0 with no
\* rate-change seek asked during construction.
C13_DefaultsApply ==
    (ret.op = "new" /\ ret.res = "Ok")
        => /\ options.frame_buffer_capacity = <<>>
                => frame_buffer_capacity = DefaultCapacity
           /\ options.looping = <<>> => looping = FALSE
           /\ options.speed = <<>> => speed = 1 /\ seekReq = NoSeek

\* C14 -- construction, on caps whose framerate numer/denom is zero, negative,
\* NaN (0/0) or infinite (n/0), returns Error::Framerate with the pipeline Null
\* and no handle.
C14_InvalidFramerateRejected ==
    [][\A fr \in Fractions :
         (NewCaps("none", fr) /\ (fr[2] = 0 \/ fr[1] = 0 \/ fr[1] * fr[2] < 0))
             => /\ ret'.op = "new" /\ ret'.res = "ErrFramerate"
                /\ source' = "Null"
                /\ npc' = "failed"
                /\ \A h \in Handles : pc'[h] = "unborn"]_vars

\* construction has returned Error::Framerate for a framerate of 0/1
C14_Witness ==
    /\ ret.op = "new" /\ ret.res = "ErrFramerate" /\ ret.data = <<0, 1>>
    /\ npc = "failed" /\ source = "Null"

\* C15 -- whenever construction has failed, the pipeline is Null and no handle
\* exists; construction returns an error only by failing.
C15_FailedConstructionIsNull ==
    /\ npc = "failed" => /\ source = "Null"
                         /\ \A h \in Handles : pc[h] = "unborn"
                         /\ worker = "None"
    /\ (ret.op = "new" /\ ret.res # "Ok") => npc = "failed"

\* construction failed in the initial-speed step (the rate-change seek was
\* rejected), after the worker was spawned
C15_Witness ==
    /\ npc = "failed" /\ ret.op = "new" /\ ret.res = "Err"
    /\ seekReq # NoSeek /\ ~seekReq.ok
    /\ wpc = "loop" /\ source = "Null"

\* C16 (as claimed) -- when restart() returns Ok (no end-of-stream event having
\* been drained while it ran), is_eos is false, the pipeline is Playing, and the
\* ring buffer and frame_ready are cleared.
C16_RestartLeavesClean ==
    [][\A h \in Handles :
         (pc[h] = "seek_flag" /\ arg[h].op = "restart" /\ pc'[h] = "idle"
                              /\ ~eosDrained)
             => /\ ~is_eos' /\ source' = "Playing"
                /\ frame_buffer' = <<>> /\ upload_frame' = FALSE]_vars

\* C16 (amended) -- restart() asks a flush seek to position zero at the stored
\* speed; when it returns Ok the pipeline has been set to Playing, frame_ready
\* is false, the ring buffer holds nothing but frames the worker pushed after
\* the clear, and is_eos is false unless the worker drained an end-of-stream
\* event meanwhile; from then on the worker reaches its pull unless an
\* end-of-stream event arrives.
C16_RestartResumes ==
    /\ [][\A h \in Handles :
            /\ (pc[h] = "restart_seek" /\ pc'[h] = "seek_sub")
                 => seekReq' = SeekReq(speed, SeekSet(0), SeekSet(NoTime), TRUE)
            /\ (pc[h] = "seek_flag" /\ arg[h].op = "restart" /\ pc'[h] = "idle")
                 => /\ ret' = [op |-> "restart", res |-> "Ok", data |-> <<>>]
                    /\ source' = "Playing"
                    /\ upload_frame' = FALSE
                    /\ ~pushedInSeek => frame_buffer' = <<>>
                    /\ ~eosDrained => ~is_eos']_vars
    /\ (ret.op = "restart" /\ ret.res = "Ok" /\ ~is_eos) ~> (wpc = "pull" \/ is_eos)

\* restart() returned Ok with is_eos cleared, after a resume at end-of-stream had
\* marked restart_stream, while the worker was in its idle cycle
C16_Witness ==
    /\ ret.op = "restart" /\ ret.res = "Ok"
    /\ restart_stream /\ ~is_eos /\ bus = <<>>
    /\ wpc = "loop" /\ source = "Playing"

\* C17 -- set_paused(paused) asks no seek; its check marks restart_stream exactly
\* when is_eos is set and paused is false, and then leaves is_eos set;
\* set_paused(true), and set_paused(false) with is_eos clear, leave
\* restart_stream as it was.
C17_ResumeAtEosMarksRestart ==
    [][\A h \in Handles :
         /\ pc'[h] = "pause_flag" => seekReq' = NoSeek
         /\ (pc[h] = "pause_flag" /\ pc'[h] = "idle")
              => /\ seekReq' = NoSeek
                 /\ (is_eos /\ ~arg[h].paused) => restart_stream' /\ is_eos'
                 /\ ~(is_eos /\ ~arg[h].paused)
                      => restart_stream' = restart_stream]_vars

\* set_paused(false) returned at end-of-stream: restart_stream marked, is_eos set
C17_Witness ==
    /\ ret.op = "set_paused" /\ ret.res = "Ok"
    /\ restart_stream /\ is_eos /\ source = "Playing"

\* C18 -- once restart_stream is marked, the flag is eventually consumed and
\* is_eos cleared, whatever the holder of the handle does next.
C18_ResumeActedOn == restart_stream ~> (~restart_stream /\ ~is_eos)

\* C19 -- when seek(position, accurate) returns Ok, is_eos is false (unless the
\* worker drained an end-of-stream event while the seek ran).
C19_SeekClearsEos ==
    [][\A h \in Handles :
         (pc[h] = "seek_flag" /\ arg[h].op = "seek" /\ pc'[h] = "idle" /\ ~eosDrained)
             => ~is_eos']_vars

\* C20 -- a seek the pipeline rejects returns the error in the step that asked
\* it and changes nothing else: subtitle text and flag, ring buffer, frame_ready,
\* is_eos, speed, alive, the pipeline state and the worker are as before, there
\* is no teardown and the handle is idle, free for its next call.
C20_FailedSeekChangesNothing ==
    [][(ret'.op = "seek" /\ ret'.res = "Err")
         => /\ seekReq' # NoSeek /\ ~seekReq'.ok
            /\ UNCHANGED <<subtitle_text, upload_text, frame_buffer, upload_frame,
                           is_eos, speed, alive, source, worker, frame,
                           frame_buffer_capacity, restart_stream, teardowns,
                           gen, pc, workerVars>>
            /\ \A h \in Handles : pc'[h] \in {"idle", "unborn"}]_vars

\* a second call, a seek, was rejected with frames buffered and frame_ready set
C20_Witness ==
    /\ ret.op = "seek" /\ ret.res = "Err" /\ calls = 2
    /\ frame_buffer # <<>> /\ upload_frame /\ alive /\ pc[1] = "idle"

\* C21 -- while frame_buffer_capacity is 0 (and no set_frame_buffer_capacity call
\* is between its store and its trim) no step adds a frame to the ring buffer.
C21_NoPushWhileZero ==
    [][(frame_buffer_capacity = 0 /\ \A h \in Handles : pc[h] # "cap_trim")
          => Len(frame_buffer') <= Len(frame_buffer)]_vars

\* C22 -- set_frame_buffer_capacity(n) stores n as the capacity; its trim, on a
\* buffer of length L, leaves the empty buffer if n = 0, the newest n frames in
\* their order if 0 < n < L, and the buffer as it was if n >= L; the capacity is
\* n when the call returns.
C22_SetCapacityTrims ==
    [][\A h \in Handles :
         /\ (pc[h] = "idle" /\ pc'[h] = "cap_trim")
              => frame_buffer_capacity' = arg'[h].capacity
         /\ (pc[h] = "cap_trim" /\ pc'[h] = "idle")
              => LET n == arg[h].capacity
                     L == Len(frame_buffer)
                 IN  /\ n = 0 => frame_buffer' = <<>>
                     /\ (0 < n /\ n < L)
                          => frame_buffer' = SubSeq(frame_buffer, L - n + 1, L)
                     /\ n >= L => frame_buffer' = frame_buffer
                     /\ frame_buffer_capacity' = n]_vars

\* set_frame_buffer_capacity(2) returned after trimming a buffer of three frames
\* to its newest two
C22_Witness ==
    /\ ret.op = "set_frame_buffer_capacity"
    /\ frame_buffer_capacity = 2
    /\ frame_buffer = <<[id |-> 2, gen |-> 0], [id |-> 3, gen |-> 0]>>

\* C23 -- the ring buffer always holds its frames in strictly increasing
\* publication order; the worker's push puts the published frame at the back and
\* keeps of the older frames the newest ones that fit the capacity it loaded;
\* pop_buffered_frame() takes the frame at the front, which is newer than the
\* frame the previous pop took.
C23_BufferIsFifo ==
    /\ [](\A i \in 1..(Len(frame_buffer) - 1) :
              frame_buffer[i].id < frame_buffer[i + 1].id)
    /\ [][/\ (wpc = "push" /\ wpc' = "ready")
               => LET L == Len(frame_buffer')
                  IN  /\ L = (IF Len(frame_buffer) + 1 > wCap
                              THEN wCap ELSE Len(frame_buffer) + 1)
                      /\ frame_buffer'[L] = lastWritten
                      /\ SubSeq(frame_buffer', 1, L - 1)
                           = SubSeq(frame_buffer, Len(frame_buffer) - L + 2,
                                    Len(frame_buffer))
          /\ (ret'.op = "pop_buffered_frame" /\ frame_buffer # <<>>)
               => /\ ret'.data = FrameTuple(Head(frame_buffer), width, height)
                  /\ frame_buffer' = Tail(frame_buffer)
                  /\ Head(frame_buffer).id > lastPop]_vars

\* two successive pop_buffered_frame() calls returned frame 1 and then frame 2
C23_Witness ==
    /\ ret.op = "pop_buffered_frame" /\ ret.res = "Some"
    /\ ret.data[1] = <<2>> /\ lastPop = 2
    /\ calls = 2 /\ frame_buffer_capacity = DefaultCapacity

\* C24 -- set_paused and restart hand every outcome back to their caller as Ok
\* or as an error value, and no holder of a handle is aborted by a call.
C24_StateErrorReturned ==
    /\ ret.op \in {"set_paused", "restart"} => ret.res \in {"Ok", "Err"}
    /\ \A h \in Handles : pc[h] # "panicked"

C26_EosIdle ==
    /\ [](is_eos => wpc \in {"loop", "drain", "eoscheck", "stopped"})
    /\ [][/\ (wpc = "drain" /\ bus # <<>> /\ Head(bus) = "Eos" /\ bus' = Tail(bus))
               => is_eos'
          /\ (wpc = "eoscheck" /\ is_eos /\ wpc' # wpc) => wpc' = "loop"
          /\ (is_eos /\ (wpc' # wpc \/ bus' # bus))
               => UNCHANGED <<frame, frame_buffer, upload_frame, subtitle_text,
                              upload_text, clear_subtitles_at, delivered,
                              wSample>>]_vars
    /\ (bus # <<>> /\ Head(bus) = "Eos") ~> is_eos

\* the worker is back at the head of its loop from the end-of-stream check, with
\* a frame published earlier still in the slot
C26_Witness ==
    /\ is_eos /\ wpc = "loop" /\ bus = <<>>
    /\ frame # EmptyFrame /\ upload_frame /\ alive

\* The order of the worker's loop body: the pairs <<position, next position>>.
WorkerOrder ==
    {<<"loop", "drain">>, <<"loop", "stopped">>, <<"drain", "eoscheck">>,
     <<"eoscheck", "loop">>, <<"eoscheck", "state">>, <<"state", "pull">>,
     <<"pull", "loop">>, <<"pull", "slot">>, <<"slot", "capload">>,
     <<"capload", "push">>, <<"capload", "ready">>, <<"push", "ready">>,
     <<"ready", "subclear">>, <<"subclear", "subclearflag">>,
     <<"subclear", "textpull">>, <<"subclearflag", "textpull">>,
     <<"textpull", "loop">>, <<"textpull", "subset">>,
     <<"subset", "subsetflag">>, <<"subsetflag", "loop">>}

\* C27 -- the worker moves through its iteration in the order drain, end-of-stream
\* check, pull, slot, buffer, frame_ready, subtitles: it leaves the drain only
\* with the bus empty; a sample is delivered only at the pull; the slot is
\* written only after the pull, with the pulled sample; the push is made iff the
\* capacity loaded is above 0, and pushes the sample already in the slot;
\* frame_ready is set after the slot is written (and after the push); subtitle
\* clearing and cue activation come after that and use that sample's time.
C27_IterationOrder ==
    [][/\ wpc' # wpc => <<wpc, wpc'>> \in WorkerOrder
       /\ (wpc = "drain" /\ wpc' = "eoscheck") => bus = <<>>
       /\ delivered' # delivered => wpc = "pull"
       /\ frame' # frame => (wpc = "slot" /\ frame' = wSample)
       /\ (wpc = "capload" /\ wpc' # wpc)
            => /\ (wpc' = "push") <=> (frame_buffer_capacity > 0)
               /\ frame = wSample
       /\ Len(frame_buffer') > Len(frame_buffer)
            => /\ wpc = "push" /\ frame = wSample
               /\ frame_buffer'[Len(frame_buffer')] = wSample
       /\ (upload_frame' /\ ~upload_frame) => (wpc = "ready" /\ frame = wSample)
       /\ (wpc = "subclear" /\ wpc' = "subclearflag")
            => (frame = wSample /\ wSample.id >= clear_subtitles_at)
       /\ (wpc = "textpull" /\ wpc' = "subset")
            => (frame = wSample /\ Overlaps(wText', wSample))]_vars

\* the worker is about to activate a cue, having written the sample to the slot,
\* pushed it to the buffer and set frame_ready in this iteration
C27_Witness ==
    /\ wpc = "subset" /\ frame = wSample /\ upload_frame
    /\ frame_buffer # <<>> /\ frame_buffer[Len(frame_buffer)] = wSample
    /\ Overlaps(wText, wSample) /\ bus = <<>>

\* C28 -- while alive is set the worker never stops; draining an Error message
\* changes neither is_eos nor anything published; a video sample that cannot be
\* used is dropped with the slot, the buffer, frame_ready and is_eos as they
\* were; a cue that is dropped leaves is_eos and the frame already written to
\* the slot as they were; after each of them, and after a pull that timed out,
\* the worker is at the head of its loop again, and it always comes back there.
C28_WorkerSurvivesErrors ==
    /\ [](alive => wpc # "stopped")
    /\ [][/\ (wpc = "drain" /\ bus # <<>> /\ Head(bus) = "Error" /\ bus' = Tail(bus))
               => /\ wpc' = "drain"
                  /\ UNCHANGED <<is_eos, alive, frame, frame_buffer, upload_frame,
                                 subtitle_text, upload_text>>
          /\ (wpc = "pull" /\ wpc' = "loop")
               => UNCHANGED <<is_eos, alive, frame, frame_buffer, upload_frame,
                              subtitle_text, upload_text>>
          /\ (wpc = "textpull" /\ wpc' = "loop")
               => /\ UNCHANGED <<is_eos, alive, frame, frame_buffer, upload_frame,
                                 subtitle_text, upload_text>>
                  /\ frame = wSample]_vars
    /\ []<>(wpc = "loop")

\* the worker has pulled a sample after it drained an Error message (the only
\* event of the run, with no sample delivered before it and no restart made)
C28_Witness ==
    /\ events = 1 /\ bus = <<>> /\ ~is_eos /\ calls = 0
    /\ delivered = 1 /\ wpc = "slot" /\ alive

\* C29 -- the pull of an iteration is try_pull_sample if the pipeline state the
\* worker read in that iteration was Playing and try_pull_preroll otherwise; the
\* observation is not changed until the next iteration reads the state again;
\* whichever pull delivered the sample, it is written to the slot and
\* frame_ready is set.
C29_PullVariantFollowsState ==
    [][/\ (wpc = "state" /\ wpc' = "pull")
            => PullVariant' = (IF source = "Playing" THEN "try_pull_sample"
                               ELSE "try_pull_preroll")
       /\ wpc # "state" => wPlaying' = wPlaying
       /\ (wpc = "pull" /\ wpc' = "slot")
            => wSample' = [id |-> delivered', gen |-> gen]
       /\ (wpc = "slot" /\ wpc' # wpc) => frame' = wSample
       /\ (wpc = "ready" /\ wpc' # wpc) => upload_frame']_vars

\* a sample pulled with try_pull_preroll while the pipeline was paused has been
\* written to the slot and has set frame_ready
C29_Witness ==
    /\ PullVariant = "try_pull_preroll" /\ source = "Paused"
    /\ wpc = "subclear" /\ frame = wSample /\ wSample # EmptyFrame
    /\ upload_frame

\* C30 -- the worker sets the subtitle text only to the cue it pulled in the
\* same iteration, only if that cue overlaps the frame of that iteration, which
\* is in the slot by then; it then sets the dirty flag and records the cue's end
\* as the clear time; a cue that is not activated is not kept: outside the two
\* activation steps the worker holds no cue.
C30_CueNeedsOverlap ==
    /\ [](wpc \notin {"subset", "subsetflag"} => wText = NoCue)
    /\ [][/\ (subtitle_text' # subtitle_text /\ subtitle_text' # NoCue)
               => /\ wpc = "subset" /\ subtitle_text' = wText
                  /\ Overlaps(wText, wSample) /\ frame = wSample
          /\ (wpc = "textpull" /\ wpc' = "subset") => Overlaps(wText', wSample)
          /\ (wpc = "textpull" /\ wpc' = "loop")
               => UNCHANGED <<subtitle_text, upload_text, clear_subtitles_at>>
          /\ (wpc = "subsetflag" /\ wpc' # wpc)
               => /\ upload_text'
                  /\ clear_subtitles_at' = wText.pts + wText.dur]_vars

\* a cue overlapping the frame of its iteration is the subtitle text, with the
\* dirty flag set and its end recorded as the clear time
C30_Witness ==
    /\ subtitle_text # NoCue /\ upload_text /\ wpc = "loop"
    /\ Overlaps(subtitle_text, wSample)
    /\ clear_subtitles_at = subtitle_text.pts + subtitle_text.dur

\* C31 -- an activated cue's end time becomes the pending clear time; every
\* published frame evaluates the pending clear before a new cue is pulled, and the
\* first one whose start time is at or after it sets the subtitle text to none,
\* marks it dirty and removes the pending clear; the worker clears the subtitle
\* text in no other step.
C31_PendingClear ==
    /\ [](wpc = "textpull" => ~ClearDue)
    /\ [][/\ (wpc = "subsetflag" /\ wpc' # wpc)
               => clear_subtitles_at' = wText.pts + wText.dur
          /\ (wpc = "ready" /\ wpc' # wpc) => wpc' = "subclear"
          /\ (wpc = "subclear" /\ wpc' # wpc /\ ClearDue)
               => subtitle_text' = NoCue /\ wpc' = "subclearflag"
          /\ (wpc = "subclearflag" /\ wpc' # wpc)
               => /\ upload_text' /\ clear_subtitles_at' = NoTime
                  /\ wpc' = "textpull"
          /\ (pc' = pc /\ subtitle_text' = NoCue /\ subtitle_text # NoCue)
               => wpc = "subclear" /\ ClearDue
          /\ (wpc' = "textpull" /\ wpc' # wpc)
               => wpc \in {"subclear", "subclearflag"}
          /\ (clear_subtitles_at' # clear_subtitles_at)
               => wpc \in {"subclearflag", "subsetflag"}]_vars

\* the worker has just cleared the text of a cue whose end the frame reached
C31_Witness ==
    /\ wpc = "subclearflag"
    /\ subtitle_text = NoCue
    /\ clear_subtitles_at = wSample.id
    /\ upload_frame

\* gen of the last seek that has cleared the subtitle text: the seek in progress
\* has not yet done so while it is before `*self.subtitle_text.lock() = None`.
SubClearGen == gen - (IF \E h \in Handles : pc[h] = "seek_sub" THEN 1 ELSE 0)

\* C32 -- a successful seek returns with the subtitle text empty and its dirty
\* flag set, and the worker activates no cue that it pulled for a frame from
\* before a seek that has already cleared the subtitle text.
C32_SeekClearsSubtitles ==
    [][/\ (ret'.op = "seek" /\ ret'.res = "Ok")
            => subtitle_text' = NoCue /\ upload_text'
       /\ (wpc = "subset" /\ wpc' = "subsetflag")
            => wSample.gen >= SubClearGen]_vars

\* C33 -- when the worker thread has panicked, the teardown of the last handle's
\* drop still completes: join returns the panic as an Err, which does not abort
\* the dropping thread, and the drop ends with the pipeline Null, alive false and
\* the worker joined.
C33_TeardownSurvivesPanic ==
    /\ [][\A h \in Handles :
            (pc[h] = "drop_join" /\ pc'[h] # pc[h] /\ wpc = "panicked")
                => /\ ret'.op = "join" /\ ret'.res = "Err"
                   /\ pc'[h] = "drop_dec"
                   /\ source' = "Null" /\ ~alive' /\ joined']_vars
    /\ \A h \in Handles :
         (pc[h] \in {"drop_null", "drop_alive", "drop_take", "drop_join"}
              /\ wpc = "panicked")
            ~> (pc[h] = "dropped" /\ source = "Null" /\ ~alive /\ joined
                    /\ worker = "None")

\* the drop of the last handle has ended after it joined a panicked worker
C33_Witness ==
    /\ wpc = "panicked"
    /\ joined
    /\ \E h \in Handles : pc[h] = "dropped"
    /\ source = "Null"
    /\ ~alive

\* C34 -- the stored speed changes only in a set_speed that returns Ok (to the
\* rate the pipeline accepted); every other step leaves it as it is, and every
\* seek that seek() or restart() asks of the pipeline carries the stored speed
\* as its rate.
C34_SpeedOnlyBySetSpeed ==
    [][/\ speed' # speed
            => /\ ret'.op = "set_speed" /\ ret'.res = "Ok"
               /\ seekReq'.ok /\ seekReq'.rate = speed'
       /\ (seekReq' # NoSeek /\ ret'.op # "set_speed")
            => seekReq'.rate = speed /\ speed' = speed]_vars

\* seek() has asked the pipeline for a seek at the rate an earlier set_speed stored
C34_Witness ==
    /\ speed = 2
    /\ seekReq = SeekReq(2, SeekSet(1), SeekSet(NoTime), TRUE)
    /\ \E h \in Handles : pc[h] = "seek_sub"

\* C35 -- whenever frame_ready is true the Frame Slot holds a frame: the worker
\* sets the flag only for the frame it has already written to the slot, and the
\* slot only ever goes to a more recent frame; so take_frame_ready() returns
\* true only with a frame in the slot, and current_frame_data() returns none
\* only while nothing has been published yet.
C35_ReadyImpliesFrame ==
    /\ [](upload_frame => frame # EmptyFrame /\ Readable(frame) # <<>>)
    /\ [][/\ (wpc = "ready" /\ wpc' # wpc)
               => upload_frame' /\ frame' = wSample /\ frame = wSample
          /\ (upload_frame' /\ ~upload_frame) => wpc = "ready" /\ frame' = wSample
          /\ frame' # frame => frame'.id > frame.id
          /\ (ret'.op = "take_frame_ready" /\ ret'.res = "true")
               => FrameTuple(frame', width, height) # <<>>
          /\ (ret'.op = "current_frame_data" /\ ret'.res = "None")
               => ~upload_frame /\ lastWritten = EmptyFrame /\ unconsumed = 0]_vars

\* current_frame_data() has returned the frame of the one publish so far, after
\* take_frame_ready() returned true for it
C35_Witness ==
    /\ ret.op = "current_frame_data"
    /\ ret.res = "Some"
    /\ ret.data = FrameTuple(lastWritten, width, height)
    /\ delivered = 1
    /\ wpc \in {"subclear", "subclearflag", "textpull", "subset", "subsetflag"}
    /\ unconsumed = 0
    /\ ~upload_frame
    /\ calls = 2
    /\ gen = 0

\* C36 -- the frames chosen by successive paints never go backwards in
\* publication order when no seek intervenes.
C36_PaintNeverBackwards ==
    [][painted' >= painted]_vars

\* C37 -- every size() call that has taken its first read guard eventually
\* returns, and so does every call waiting for the write guard, also when the
\* write guard is asked for between the two read acquisitions of size().
C37_CallsReturn ==
    \A h \in Handles :
        (pc[h] \in {"size_height", "write_wait"}) ~> (pc[h] = "idle")

\* C38 -- when construction fails after the worker thread was spawned, the
\* worker is stopped: alive is false once the constructor has returned the
\* error, and the worker eventually exits.
C38_FailedNewStopsWorker ==
    /\ []((npc = "failed" /\ wpc # "unspawned") => ~alive)
    /\ (npc = "failed" /\ wpc # "unspawned") ~> (wpc = "stopped")

\* Handle h takes a step of restart() that is not part of an accepted seek: the
\* is_eos store, the state change, the restart mark, or the rejected seek.
RestartStep(h) ==
    /\ pc'[h] # pc[h]
    /\ \/ pc'[h] = "restart_play"
       \/ pc[h] \in {"restart_play", "restart_flag"}
       \/ pc[h] = "restart_seek" /\ pc'[h] = "idle"

\* C39 (as claimed) -- when the seek to zero of restart() is rejected, the error
\* is returned with is_eos false and the pipeline Playing, and the return leaves
\* the ring buffer, frame_ready and the subtitle state as they were.
C39_RestartFailureState ==
    [][(ret'.op = "restart" /\ ret'.res = "Err")
          => /\ ~is_eos'
             /\ source' = "Playing"
             /\ UNCHANGED <<frame_buffer, upload_frame, subtitle_text,
                            upload_text>>]_vars

\* C39 -- restart() is not atomic on failure: it stores is_eos = false and sets
\* the pipeline Playing before it asks for the seek to zero at the stored speed;
\* when that seek is rejected it returns the error with the pipeline Playing, and
\* is_eos false unless the worker has drained an end-of-stream message since;
\* no step of the failed restart changes the ring buffer, frame_ready or the
\* subtitle state.
C39_RestartPartial ==
    [][\A h \in Handles :
         /\ RestartStep(h)
              => UNCHANGED <<frame_buffer, upload_frame, subtitle_text, upload_text>>
         /\ (RestartStep(h) /\ pc'[h] = "restart_play") => ~is_eos'
         /\ (RestartStep(h) /\ pc[h] = "restart_play") => source' = "Playing"
         /\ (RestartStep(h) /\ pc[h] = "restart_seek")
              => /\ ret'.op = "restart" /\ ret'.res = "Err"
                 /\ seekReq' = SeekReq(speed, SeekSet(0), SeekSet(NoTime), FALSE)
                 /\ source' = "Playing"
                 /\ ~is_eos' \/ eosDrained
         /\ (ret'.op = "restart" /\ ret'.res = "Err") => RestartStep(h) \/ pc'[h] = pc[h]]_vars

\* a restart has returned the error of its rejected seek: is_eos is false, the
\* pipeline is Playing, and the buffered frames and frame_ready are still there
C39_Witness ==
    /\ ret.op = "restart"
    /\ ret.res = "Err"
    /\ seekReq = SeekReq(speed, SeekSet(0), SeekSet(NoTime), FALSE)
    /\ ~is_eos
    /\ source = "Playing"
    /\ frame_buffer # <<>>
    /\ upload_frame

\* C40 -- lock discipline: no thread ever holds the guards of two inner mutexes
\* at once, and a guard has one holder; a thread that holds a guard can take its
\* next step; a thread that cannot take its next step waits for a thread that can
\* (the holder of a guard, a handle's holder that has the write guard, or the
\* worker that teardown joins), so there is no cyclic wait; the worker never waits
\* for the shared-state lock: while teardown waits in join, the write guard held,
\* the worker can take its next step until it has ended.
C40_LockDiscipline ==
    /\ \A t \in Threads : Cardinality(held[t]) <= 1
    /\ \A t, u \in Threads : t # u => held[t] \cap held[u] = {}
    /\ \A t \in Threads : held[t] # {} => Running(t) /\ ENABLED Step(t)
    /\ \A t \in Threads :
         Running(t) /\ ~ENABLED Step(t)
            => \E u \in Threads \ {t} :
                  /\ ENABLED Step(u)
                  /\ \/ held[u] # {}
                     \/ u # 0 /\ t # 0 /\ pc[u] \in WritePcs
                     \/ u = 0 /\ pc[t] = "drop_join"
    /\ \A h \in Handles :
         pc[h] = "drop_join" /\ wpc # "stopped" => ENABLED Step(0)

\* the worker holds the ring buffer's guard, about to push, while a handle's
\* holder inside seek holds the write guard and waits for the ring buffer
C40_Witness ==
    /\ held[0] = {"frame_buffer"}
    /\ wpc = "push_locked"
    /\ \E h \in Handles : pc[h] = "seek_buf" /\ ~ENABLED Step(h)

====
